---- MODULE Spec2Model ----
(***************************************************************************)
(* Concurrency substrate of the web server: the ShutdownCoordinator        *)
(* (include/shutdown_coordinator.h), the ThreadPool (src/server.cpp,       *)
(* "Enhanced thread_pool.cpp" section), the connection lifecycle of        *)
(* WebServer (accept loop, handler task, idle sweeper, cleanup) and the    *)
(* long-running loops that are meant to observe the shutdown flag.         *)
(*                                                                         *)
(* Several specifications share the module:                                *)
(*   Spec        the worker pool inside a server run                       *)
(*   SpecCoord   the ShutdownCoordinator driven through its public API     *)
(*   SpecServer  a server run: accepted sockets, the paths that close      *)
(*               them, and the loops that poll the shutdown flags          *)
(*   SpecSweep   the keep-alive sweeper against a clock                    *)
(*   SpecLocks   the tracker and registry mutexes, step by step            *)
(*   SpecHttp    one cleartext connection: the bytes a client sends, how   *)
(*               the handler task reads, parses and answers them           *)
(***************************************************************************)
EXTENDS Integers, Sequences, FiniteSets, TLC

\* ---- bounds ----
NumWorkers == 2
MaxTasks == 2
MaxTime == 4
NumCallers == 2
NumConns == 2
\* clock resolution and horizon of the timed sweeper, and the value main
\* passes to enable_keep_alive (seconds)
TicksPerSec == 2
MaxTicks == 8
KeepAliveTimeout == 1
MaxRequests == 2      \* requests a client writes on one connection
NumSessions == 2      \* cleartext HTTP/2 sessions of one server process
MaxFeeds == 2         \* process_data calls on one session
MaxChunk == 2         \* pieces of one chunk handed to process_data
MaxBody == 4          \* bytes of a response body
MaxRead == 2          \* buffer length nghttp2 offers to one DATA source read
MaxStreams == 2       \* streams a client opens on one HTTP/2 session
MaxLines == 2         \* lines of a raw request after the request line
MaxOffer == 3         \* protocols in a client's ALPN list
MaxPayload == 5       \* payload bytes of a masked frame a client sends
MaxContentLength == 3 \* body bytes of a request that announces its Content-Length
MaxDecode == 4        \* characters of a query key or value given to url_decode
MaxAccepts == 3       \* connections accepted while descriptor numbers are followed

\* ---- program constants ----
\* ThreadPool::stop: const auto timeout = std::chrono::seconds(3)
StopTimeout == 3

Workers == 1..NumWorkers
TaskIds == 1..MaxTasks
Callers == 1..NumCallers
\* the client sockets accept() can return; 0 stands for "no socket"
Conns == 1..NumConns
\* the HTTP2Handler objects handle_http2_connection creates, one per connection
Sessions == 1..NumSessions

\* std::map as a function on the keys it holds
EmptyMap == [k \in {} |-> 0]
MapPut(m, k, v) == [x \in DOMAIN m \cup {k} |-> IF x = k THEN v ELSE m[x]]
MapErase(m, k) == [x \in DOMAIN m \ {k} |-> m[x]]

\* identities of the threads that can own a mutex
NoOne == [kind |-> "none", id |-> 0]
WorkerThread(w) == [kind |-> "worker", id |-> w]
AcceptThread == [kind |-> "accept", id |-> 0]
MetricsThread == [kind |-> "metrics", id |-> 0]
CallerThread(c) == [kind |-> "caller", id |-> c]
HandlerThread(c) == [kind |-> "handler", id |-> c]
SweeperThread == [kind |-> "sweeper", id |-> 0]
BroadcastThread == [kind |-> "broadcast", id |-> 0]
CleanupThread == [kind |-> "cleanup", id |-> 0]

VARIABLES
    \* ShutdownCoordinator
    shutdown_requested,   \* std::atomic<bool>
    active_threads,       \* std::atomic<int>
    \* ThreadPool
    stop_flag,            \* std::atomic<bool>
    tasks,                \* std::queue of task ids
    queue_mutex,          \* owner of queue_mutex
    condition,            \* workers blocked on the condition variable
    wpc,                  \* position of each worker in ThreadPool::worker
    wtask,                \* local `task` of each worker (0: empty function)
    has_work,             \* local `has_work` of each worker
    joinable,             \* workers[i].joinable(): "joinable", "joined", "detached"
    \* the thread running WebServer::cleanup / ThreadPool::stop
    spc,                  \* its position
    si,                   \* index of the worker the join loop is at
    start_time,           \* local start_time of stop()
    now,                  \* steady clock, in seconds
    \* the accept thread calling ThreadPool::enqueue
    epc,                  \* its position in enqueue
    etask,                \* the task it is submitting
    \* the metrics sampler calling get_queue_size
    qpc,
    \* history of each task
    submitted,            \* enqueue(task) has been called
    callStop,             \* stop_flag at the call of enqueue(task)
    callShut,             \* shutdown_requested at the call of enqueue(task)
    pushed,               \* number of times the task was pushed on the queue
    popped,               \* number of times a worker popped the task
    executed,             \* number of times the task body was started
    \* ShutdownCoordinator, driven through its public operations
    shutdown_mutex,       \* owner of shutdown_mutex
    shutdown_cv,          \* callers blocked on shutdown_cv
    all_threads_stopped_cv, \* callers blocked on all_threads_stopped_cv
    registered_threads,   \* the thread registry
    cpc,                  \* position of each caller
    cret,                 \* the value a wait is returning
    ctimed,               \* the caller's wait_for ran into its timeout
    cremaining,           \* local `remaining` of thread_exiting
    creg,                 \* "no", "registered", "exited": the caller's own registration
    \* WebServer, WebSocketHandler and main.cpp in a server run
    g_shutdown_requested, \* main.cpp: std::atomic<bool> g_shutdown_requested
    keep_alive_enabled,   \* WebServer::keep_alive_enabled
    running,              \* WebSocketHandler::running
    metrics_running,      \* WebServer::metrics_running
    server_fd,            \* "open" or "closed"
    sockets,              \* ResourceManager::sockets
    connection_timestamps, \* keys of WebServer::connection_timestamps
    idle,                 \* tracked sockets whose timestamp is older than connection_timeout
    connections,          \* sockets of WebSocketHandler::connections
    apc,                  \* position of WebServer::start
    client_socket,        \* local client_socket of the accept loop
    hpc,                  \* position of each socket's handler task
    kpc,                  \* position of the connection cleanup thread
    expired_connections,  \* local expired_connections of manage_connections
    bpc,                  \* position of broadcast_loop_safe
    ppc,                  \* position of ping_loop_safe
    mpc,                  \* position of the metrics thread
    xpc,                  \* position of the thread running WebServer::cleanup
    closes,               \* number of close() calls made on each client socket
    missed,               \* loops that went into another turn with the flag set
    \* the keep-alive sweeper against a clock
    ticks,                \* steady clock, in 1/TicksPerSec seconds
    stamp,                \* value of connection_timestamps[socket], in ticks
    next_sweep,           \* when the sweeper's wait_for_shutdown(1 s) times out
    in_request,           \* connections whose handler is reading or serving a request
    \* the mutexes of the tracker and of the WebSocket registry
    connection_mutex,     \* owner of WebServer::connection_mutex
    connections_mutex,    \* owner of WebSocketHandler::connections_mutex
    \* one cleartext connection and its handler task
    http2_enabled,        \* WebServer::http2_enabled
    wire,                 \* bytes sent by the client and not yet received, in pieces
    sent,                 \* history: the requests the client has written, in order
    rpc,                  \* position of the handler task of this connection
    headers_data,         \* handle_http_connection's headers_data, in pieces
    request,              \* the HttpRequest parsed in the current turn
    keep_connection,      \* handle_http_connection's keep_connection
    responses,            \* history: what the server has sent on the connection
    \* HTTP2Handler::process_data on the cleartext sessions of one process
    preface_processed,    \* per session: the member of the enhanced handler
    static_preface_processed, \* the function-local static of the other copy
    fed_data,             \* history, per session: the chunks given to process_data
    codec_input,          \* per session: what the member copy gave nghttp2
    codec_input_static,   \* per session: what the static copy gave nghttp2
    \* the response of one HTTP/2 stream and its DATA source
    response_body,        \* HTTP2Stream::response_body
    response_data_sent,   \* HTTP2Stream::response_data_sent
    data_source,          \* nghttp2's view of the provider: none, open, eof
    data_reads,           \* history: bytes and flag returned by each read
    \* one HTTP/2 session: HTTP2Handler and what nghttp2 knows of its streams
    streams,              \* HTTP2Handler::streams, stream id -> HTTP2Stream
    stream_priorities,    \* HTTP2Handler::stream_priorities, the ids it holds
    next_promised,        \* nghttp2: the id the next pushed stream gets
    h2_requests,          \* history: stream id -> the request the client sent
    closed_streams,       \* history: ids on_stream_close_callback was called for
    promises,             \* history: the PUSH_PROMISEs nghttp2 accepted, in order
    answers,              \* history: the responses submitted, in order
    \* one HttpRequest object and the text given to its parse
    raw_request,          \* the argument of HttpRequest::parse, as lines
    parsed,               \* what parse did and the object's fields afterwards
    \* the last TLS handshake's ALPN negotiation
    alpn_offered,         \* history: the protocol names the client offered
    alpn_result,          \* what alpn_select_callback returned, and *out
    \* one WebSocket frame on its way through create_frame and parse_frame
    ws_input,             \* history: who built the frame, opcode, payload, key
    ws_frame,             \* the frame's bytes
    ws_parsed,            \* the WebSocketFrame parse_frame returned
    \* one HTTP/1.1 request with a body on its way to the handler
    body_pending,         \* the segments the client has still to write
    body_wire,            \* bytes that arrived at the socket and were not read yet
    body_data,            \* headers_data of the loop turn
    body_request,         \* the turn's position and the HttpRequest it parsed
    \* one call of HttpRequest::url_decode
    decode_input,         \* history: the argument
    decode_result,        \* whether it returned or threw, and the string returned
    \* descriptor numbers and the connections they stand for
    fd_owner,             \* descriptor -> the connection it is open on, 0 when free
    fd_tracked,           \* keys of connection_timestamps
    fd_registered,        \* descriptors in g_resource_manager
    task_socket,          \* connection -> the int its handler task was given
    task_at,              \* connection -> position of its handler task
    fd_closed_by,         \* history: connection -> who closed it (0 nobody, Sweeper,
                          \* else the connection whose task did)
    fd_io_by,             \* history: connection -> the tasks that did recv/send on it
    \* handler tasks and the workers that execute them
    pending_tasks,        \* ThreadPool::tasks, each task by its connection
    worker_conn,          \* worker -> the connection whose task it executes, 0 idle
    conn_at,              \* connection -> position of its handler task
    conn_served           \* history: connection -> requests answered on it

coordVars == <<shutdown_requested, active_threads>>
poolVars == <<stop_flag, tasks, queue_mutex, condition, wpc, wtask, has_work,
              joinable>>
stopVars == <<spc, si, start_time>>
enqVars == <<epc, etask, submitted, callStop, callShut, pushed>>
histVars == <<popped, executed>>
\* variables of the other specifications
harnessVars == <<shutdown_mutex, shutdown_cv, all_threads_stopped_cv, registered_threads,
                 cpc, cret, ctimed, cremaining, creg>>
flagVars == <<g_shutdown_requested, keep_alive_enabled, running, metrics_running, server_fd>>
regVars == <<sockets, connection_timestamps, idle, connections>>
acceptVars == <<apc, client_socket>>
sweepVars == <<kpc, expired_connections>>
loopVars == <<bpc, ppc, mpc>>
serverVars == <<flagVars, regVars, acceptVars, hpc, sweepVars, loopVars, xpc, closes,
                missed>>
timeVars == <<ticks, stamp, next_sweep, in_request>>
lockVars == <<connection_mutex, connections_mutex>>
httpVars == <<http2_enabled, wire, sent, rpc, headers_data, request, keep_connection,
              responses>>
prefaceVars == <<preface_processed, static_preface_processed, fed_data, codec_input,
                 codec_input_static>>
dataVars == <<response_body, response_data_sent, data_source, data_reads>>
streamVars == <<streams, stream_priorities, next_promised, h2_requests, closed_streams,
                promises, answers>>
parseVars == <<raw_request, parsed>>
alpnVars == <<alpn_offered, alpn_result>>
frameVars == <<ws_input, ws_frame, ws_parsed>>
oldProto == <<prefaceVars, dataVars, streamVars, parseVars, alpnVars, frameVars>>
bodyVars == <<body_pending, body_wire, body_data, body_request>>
decodeVars == <<decode_input, decode_result>>
fdVars == <<fd_owner, fd_tracked, fd_registered, task_socket, task_at, fd_closed_by,
            fd_io_by>>
occupyVars == <<pending_tasks, worker_conn, conn_at, conn_served>>
lateVars == <<bodyVars, decodeVars, fdVars, occupyVars>>
baseVars == <<coordVars, poolVars, stopVars, now, enqVars, qpc, histVars, harnessVars,
              serverVars, timeVars, lockVars, httpVars, oldProto>>
protoVars == <<oldProto, lateVars>>
notPool == <<harnessVars, serverVars, timeVars, lockVars, httpVars, protoVars>>
vars == <<coordVars, poolVars, stopVars, now, enqVars, qpc, histVars, notPool>>

\* ------------------------------------------------------------------------
\* ThreadPool inside a server run (specification Spec)
\* ------------------------------------------------------------------------

\* the predicate of the worker's condition.wait_for
WorkerPred == stop_flag \/ shutdown_requested \/ tasks # <<>>

\* state after ThreadPool::ThreadPool(num_threads) and the coordinator's
\* default member initialisers
Init ==
    /\ shutdown_requested = FALSE
    /\ active_threads = 0
    /\ stop_flag = FALSE
    /\ tasks = <<>>
    /\ queue_mutex = NoOne
    /\ condition = {}
    /\ wpc = [w \in Workers |-> "loop"]
    /\ wtask = [w \in Workers |-> 0]
    /\ has_work = [w \in Workers |-> FALSE]
    /\ joinable = [w \in Workers |-> "joinable"]
    /\ spc = "c_start"
    /\ si = 1
    /\ start_time = 0
    /\ now = 0
    /\ epc = "a_loop"
    /\ etask = 0
    /\ qpc = "q_idle"
    /\ submitted = [t \in TaskIds |-> FALSE]
    /\ callStop = [t \in TaskIds |-> FALSE]
    /\ callShut = [t \in TaskIds |-> FALSE]
    /\ pushed = [t \in TaskIds |-> 0]
    /\ popped = [t \in TaskIds |-> 0]
    /\ executed = [t \in TaskIds |-> 0]
    /\ shutdown_mutex = NoOne
    /\ shutdown_cv = {}
    /\ all_threads_stopped_cv = {}
    /\ registered_threads = {}
    /\ cpc = [c \in Callers |-> "idle"]
    /\ cret = [c \in Callers |-> "none"]
    /\ ctimed = [c \in Callers |-> FALSE]
    /\ cremaining = [c \in Callers |-> 0]
    /\ creg = [c \in Callers |-> "no"]
    /\ g_shutdown_requested = FALSE
    /\ keep_alive_enabled = FALSE
    /\ running = FALSE
    /\ metrics_running = FALSE
    /\ server_fd = "open"
    /\ sockets = {}
    /\ connection_timestamps = {}
    /\ idle = {}
    /\ connections = {}
    /\ apc = "a_init"
    /\ client_socket = 0
    /\ hpc = [c \in Conns |-> "none"]
    /\ kpc = "k_none"
    /\ expired_connections = {}
    /\ bpc = "b_none"
    /\ ppc = "p_none"
    /\ mpc = "m_none"
    /\ xpc = "x_idle"
    /\ closes = [c \in Conns |-> 0]
    /\ missed = {}
    /\ ticks = 0
    /\ stamp = [c \in Conns |-> 0]
    /\ next_sweep = 0
    /\ in_request = {}
    /\ connection_mutex = NoOne
    /\ connections_mutex = NoOne
    /\ http2_enabled = FALSE
    /\ wire = <<>>
    /\ sent = <<>>
    /\ rpc = "r_none"
    /\ headers_data = <<>>
    /\ request = [method |-> "", target |-> "", version |-> "", connection |-> "",
                  upgrade |-> "", key |-> "", form |-> "none"]
    /\ keep_connection = FALSE
    /\ responses = <<>>
    /\ preface_processed = [s \in Sessions |-> FALSE]
    /\ static_preface_processed = FALSE
    /\ fed_data = [s \in Sessions |-> <<>>]
    /\ codec_input = [s \in Sessions |-> <<>>]
    /\ codec_input_static = [s \in Sessions |-> <<>>]
    /\ response_body = <<>>
    /\ response_data_sent = 0
    /\ data_source = "none"
    /\ data_reads = <<>>
    /\ streams = EmptyMap
    /\ stream_priorities = {}
    /\ next_promised = 2
    /\ h2_requests = EmptyMap
    /\ closed_streams = {}
    /\ promises = <<>>
    /\ answers = <<>>
    /\ raw_request = <<>>
    /\ parsed = [ret |-> "none", method |-> <<>>, path |-> <<>>, version |-> <<>>,
                 headers |-> EmptyMap]
    /\ alpn_offered = <<>>
    /\ alpn_result = [ret |-> "none", out |-> <<>>]
    /\ ws_input = [by |-> "none", opcode |-> 0, payload |-> <<>>, key |-> <<>>]
    /\ ws_frame = <<>>
    /\ ws_parsed = [complete |-> FALSE]
    /\ body_pending = <<>>
    /\ body_wire = <<>>
    /\ body_data = <<>>
    /\ body_request = [at |-> "none", content_length |-> 0, body |-> <<>>]
    /\ decode_input = <<>>
    /\ decode_result = [ret |-> "none", decoded |-> <<>>]
    /\ fd_owner = [fd \in 1..MaxAccepts |-> 0]
    /\ fd_tracked = {}
    /\ fd_registered = {}
    /\ task_socket = [c \in 1..MaxAccepts |-> 0]
    /\ task_at = [c \in 1..MaxAccepts |-> "none"]
    /\ fd_closed_by = [c \in 1..MaxAccepts |-> 0]
    /\ fd_io_by = [c \in 1..MaxAccepts |-> {}]
    /\ pending_tasks = <<>>
    /\ worker_conn = [w \in 1..NumWorkers |-> 0]
    /\ conn_at = [c \in 1..MaxAccepts |-> "none"]
    /\ conn_served = [c \in 1..MaxAccepts |-> 0]

\* ---- ThreadPool::worker ----

\* while (!stop_flag.load() && !coordinator.is_shutdown_requested())
WorkerLoop(w) ==
    /\ wpc[w] = "loop"
    /\ wpc' = [wpc EXCEPT ![w] = IF stop_flag \/ shutdown_requested
                                  THEN "exit" ELSE "lock"]
    /\ UNCHANGED <<coordVars, stop_flag, tasks, queue_mutex, condition, wtask, has_work,
                   joinable, stopVars, now, notPool, enqVars, qpc, histVars>>

\* unique_lock lock(queue_mutex); first evaluation of the wait predicate
WorkerLock(w) ==
    /\ wpc[w] = "lock"
    /\ queue_mutex = NoOne
    /\ queue_mutex' = WorkerThread(w)
    /\ IF WorkerPred
       THEN /\ has_work' = [has_work EXCEPT ![w] = TRUE]
            /\ wpc' = [wpc EXCEPT ![w] = "check"]
       ELSE /\ has_work' = has_work
            /\ wpc' = [wpc EXCEPT ![w] = "block"]
    /\ UNCHANGED <<coordVars, stop_flag, tasks, condition, wtask, joinable, stopVars, now, notPool, enqVars, qpc, histVars>>

\* condition.wait_for: release the mutex and block, atomically
WorkerBlock(w) ==
    /\ wpc[w] = "block"
    /\ queue_mutex' = NoOne
    /\ condition' = condition \cup {w}
    /\ wpc' = [wpc EXCEPT ![w] = "waiting"]
    /\ UNCHANGED <<coordVars, stop_flag, tasks, wtask, has_work, joinable, stopVars, now, notPool, enqVars, qpc, histVars>>

\* a notified worker re-acquires the mutex and evaluates the predicate again
WorkerWake(w) ==
    /\ wpc[w] = "waiting"
    /\ w \notin condition
    /\ queue_mutex = NoOne
    /\ queue_mutex' = WorkerThread(w)
    /\ IF WorkerPred
       THEN /\ has_work' = [has_work EXCEPT ![w] = TRUE]
            /\ wpc' = [wpc EXCEPT ![w] = "check"]
       ELSE /\ has_work' = has_work
            /\ wpc' = [wpc EXCEPT ![w] = "block"]
    /\ UNCHANGED <<coordVars, stop_flag, tasks, condition, wtask, joinable, stopVars, now, notPool, enqVars, qpc, histVars>>

\* the 100 ms of wait_for elapse: re-acquire the mutex, has_work = pred()
WorkerTimeout(w) ==
    /\ wpc[w] = "waiting"
    /\ w \in condition
    /\ queue_mutex = NoOne
    /\ queue_mutex' = WorkerThread(w)
    /\ condition' = condition \ {w}
    /\ has_work' = [has_work EXCEPT ![w] = WorkerPred]
    /\ wpc' = [wpc EXCEPT ![w] = "check"]
    /\ UNCHANGED <<coordVars, stop_flag, tasks, wtask, joinable,
                   stopVars, now, notPool, enqVars, qpc, histVars>>

\* WorkerCheck as it would be if the worker tested only the pool's own flag
WorkerCheckStopFlagOnly(w) ==
    /\ wpc[w] = "check"
    /\ IF stop_flag
       THEN /\ queue_mutex' = NoOne
            /\ wpc' = [wpc EXCEPT ![w] = "exit"]
       ELSE /\ queue_mutex' = queue_mutex
            /\ wpc' = [wpc EXCEPT ![w] = "pop"]
    /\ UNCHANGED <<coordVars, stop_flag, tasks, condition, wtask, has_work,
                   joinable, stopVars, now, notPool, enqVars, qpc, histVars>>

\* if (stop_flag.load() || coordinator.is_shutdown_requested()) break;
WorkerCheck(w) ==
    /\ wpc[w] = "check"
    /\ IF stop_flag \/ shutdown_requested
       THEN /\ queue_mutex' = NoOne
            /\ wpc' = [wpc EXCEPT ![w] = "exit"]
       ELSE /\ queue_mutex' = queue_mutex
            /\ wpc' = [wpc EXCEPT ![w] = "pop"]
    /\ UNCHANGED <<coordVars, stop_flag, tasks, condition, wtask, has_work,
                   joinable, stopVars, now, notPool, enqVars, qpc, histVars>>

\* WorkerPop as it would be if the task were taken from the front of the
\* queue without tasks.pop()
WorkerPopKeepFront(w) ==
    /\ wpc[w] = "pop"
    /\ queue_mutex' = NoOne
    /\ IF has_work[w] /\ tasks # <<>>
       THEN /\ wtask' = [wtask EXCEPT ![w] = Head(tasks)]
            /\ tasks' = tasks
            /\ popped' = [popped EXCEPT ![Head(tasks)] = IF @ < 2 THEN @ + 1 ELSE @]
            /\ executed' = [executed EXCEPT ![Head(tasks)] = IF @ < 2 THEN @ + 1 ELSE @]
            /\ wpc' = [wpc EXCEPT ![w] = "run"]
       ELSE /\ UNCHANGED <<wtask, tasks, popped, executed>>
            /\ wpc' = [wpc EXCEPT ![w] = "loop"]
    /\ has_work' = [has_work EXCEPT ![w] = FALSE]
    /\ UNCHANGED <<coordVars, stop_flag, condition, joinable,
                   stopVars, now, notPool, enqVars, qpc>>

\* if (has_work && !tasks.empty()) { task = front; pop } else continue;
\* the lock is released at the end of the block in both branches; with a
\* task in hand the worker goes on to if (task) { task(); }
WorkerPop(w) ==
    /\ wpc[w] = "pop"
    /\ queue_mutex' = NoOne
    /\ IF has_work[w] /\ tasks # <<>>
       THEN /\ wtask' = [wtask EXCEPT ![w] = Head(tasks)]
            /\ tasks' = Tail(tasks)
            /\ popped' = [popped EXCEPT ![Head(tasks)] = @ + 1]
            /\ executed' = [executed EXCEPT ![Head(tasks)] = @ + 1]
            /\ wpc' = [wpc EXCEPT ![w] = "run"]
       ELSE /\ UNCHANGED <<wtask, tasks, popped, executed>>
            /\ wpc' = [wpc EXCEPT ![w] = "loop"]
    /\ has_work' = [has_work EXCEPT ![w] = FALSE]
    /\ UNCHANGED <<coordVars, stop_flag, condition, joinable,
                   stopVars, now, notPool, enqVars, qpc>>

\* the task body returns (or throws: both catch blocks fall through);
\* if (coordinator.is_shutdown_requested()) break;
WorkerFinish(w) ==
    /\ wpc[w] = "run"
    /\ wpc' = [wpc EXCEPT ![w] = IF shutdown_requested THEN "exit" ELSE "loop"]
    /\ wtask' = [wtask EXCEPT ![w] = 0]
    /\ UNCHANGED <<coordVars, stop_flag, tasks, queue_mutex, condition, has_work,
                   joinable, stopVars, now, notPool, enqVars, qpc, histVars>>

\* coordinator.thread_exiting(): int remaining = --active_threads; the
\* notify_all of a zero count reaches no one here (the waiters of
\* all_threads_stopped_cv are part of SpecCoord); the thread ends
WorkerExiting(w) ==
    /\ wpc[w] = "exit"
    /\ active_threads' = active_threads - 1
    /\ wpc' = [wpc EXCEPT ![w] = "done"]
    /\ UNCHANGED <<shutdown_requested, stop_flag, tasks, queue_mutex, condition, wtask,
                   has_work, joinable, stopVars, now, notPool, enqVars, qpc, histVars>>

\* ---- the accept thread: WebServer::start calling ThreadPool::enqueue ----

\* the last test of the flag before the connection is handed to the pool
AcceptLoop ==
    /\ epc = "a_loop"
    /\ \E t \in TaskIds : ~submitted[t]
    /\ epc' = IF shutdown_requested THEN "a_exit" ELSE "e_call"
    /\ UNCHANGED <<coordVars, poolVars, stopVars, now, notPool, etask, submitted,
                   callStop, callShut, pushed, qpc, histVars>>

\* the next task the accept loop submits
NextTask == CHOOSE t \in TaskIds : ~submitted[t] /\ \A u \in TaskIds : u < t => submitted[u]

\* enqueue(task): if (stop_flag.load()) return;
EnqueueCall ==
    /\ epc = "e_call"
    /\ etask' = NextTask
    /\ submitted' = [submitted EXCEPT ![NextTask] = TRUE]
    /\ callStop' = [callStop EXCEPT ![NextTask] = stop_flag]
    /\ callShut' = [callShut EXCEPT ![NextTask] = shutdown_requested]
    /\ epc' = IF stop_flag THEN "a_loop" ELSE "e_try"
    /\ UNCHANGED <<coordVars, poolVars, stopVars, now, notPool, pushed, qpc, histVars>>

\* unique_lock lock(queue_mutex, try_to_lock); drop the task when the lock
\* is busy and shutdown is requested
EnqueueTryLock ==
    /\ epc = "e_try"
    /\ IF queue_mutex = NoOne
       THEN /\ queue_mutex' = AcceptThread
            /\ epc' = "e_locked"
       ELSE /\ queue_mutex' = queue_mutex
            /\ epc' = IF shutdown_requested THEN "a_loop" ELSE "e_block"
    /\ UNCHANGED <<coordVars, stop_flag, tasks, condition, wpc, wtask, has_work,
                   joinable, stopVars, now, notPool, etask, submitted,
                   callStop, callShut, pushed, qpc, histVars>>

\* lock.lock()
EnqueueLock ==
    /\ epc = "e_block"
    /\ queue_mutex = NoOne
    /\ queue_mutex' = AcceptThread
    /\ epc' = "e_locked"
    /\ UNCHANGED <<coordVars, stop_flag, tasks, condition, wpc, wtask, has_work,
                   joinable, stopVars, now, notPool, etask, submitted,
                   callStop, callShut, pushed, qpc, histVars>>

\* if (stop_flag.load()) return; tasks.push(task); the lock is released
EnqueuePush ==
    /\ epc = "e_locked"
    /\ queue_mutex' = NoOne
    /\ IF stop_flag
       THEN /\ UNCHANGED <<tasks, pushed>>
            /\ epc' = "a_loop"
       ELSE /\ tasks' = Append(tasks, etask)
            /\ pushed' = [pushed EXCEPT ![etask] = @ + 1]
            /\ epc' = "e_notify"
    /\ UNCHANGED <<coordVars, stop_flag, condition, wpc, wtask, has_work,
                   joinable, stopVars, now, notPool, etask, submitted,
                   callStop, callShut, qpc, histVars>>

\* condition.notify_one()
EnqueueNotify ==
    /\ epc = "e_notify"
    /\ IF condition = {}
       THEN condition' = condition
       ELSE \E w \in condition : condition' = condition \ {w}
    /\ epc' = "a_loop"
    /\ UNCHANGED <<coordVars, stop_flag, tasks, queue_mutex, wpc, wtask, has_work,
                   joinable, stopVars, now, notPool, etask, submitted,
                   callStop, callShut, pushed, qpc, histVars>>

\* ---- ThreadPool::get_queue_size, called by the metrics sampler ----

\* unique_lock lock(queue_mutex, try_to_lock); a failed attempt returns 0
QueueSizeTryLock ==
    /\ qpc = "q_idle"
    /\ queue_mutex = NoOne
    /\ queue_mutex' = MetricsThread
    /\ qpc' = "q_locked"
    /\ UNCHANGED <<coordVars, stop_flag, tasks, condition, wpc, wtask, has_work,
                   joinable, stopVars, now, notPool, enqVars, histVars>>

\* return tasks.size(); the lock is released
QueueSizeReturn ==
    /\ qpc = "q_locked"
    /\ queue_mutex' = NoOne
    /\ qpc' = "q_idle"
    /\ UNCHANGED <<coordVars, stop_flag, tasks, condition, wpc, wtask, has_work,
                   joinable, stopVars, now, notPool, enqVars, histVars>>

\* ---- the thread running WebServer::cleanup and ThreadPool::stop ----

\* WebServer::cleanup: coordinator.request_shutdown() (flag set under
\* shutdown_mutex, then shutdown_cv.notify_all())
CleanupRequestShutdown ==
    /\ spc = "c_start"
    /\ shutdown_requested' = TRUE
    /\ spc' = "s_flag"
    /\ UNCHANGED <<active_threads, poolVars, si, start_time, now, notPool, enqVars, qpc,
                   histVars>>

\* stop(): stop_flag.store(true); condition.notify_all();
\* coordinator.request_shutdown(); start_time = steady_clock::now()
StopBegin ==
    /\ spc = "s_flag"
    /\ stop_flag' = TRUE
    /\ condition' = {}
    /\ shutdown_requested' = TRUE
    /\ start_time' = now
    /\ si' = 1
    /\ spc' = "s_loop"
    /\ UNCHANGED <<active_threads, tasks, queue_mutex, wpc, wtask, has_work,
                   joinable, now, notPool, enqVars, qpc, histVars>>

\* for (auto& worker : workers) if (worker.joinable()) { remaining_time = ... }
StopNextWorker ==
    /\ spc = "s_loop"
    /\ IF si > NumWorkers
       THEN /\ spc' = "s_clear"
            /\ si' = si
       ELSE IF joinable[si] # "joinable"
       THEN /\ spc' = "s_loop"
            /\ si' = si + 1
       ELSE /\ spc' = IF StopTimeout - (now - start_time) > 0 THEN "s_wait" ELSE "s_detach"
            /\ si' = si
    /\ UNCHANGED <<coordVars, poolVars, start_time, now, notPool, enqVars, qpc, histVars>>

\* future.wait_for(remaining_time) == ready: the async worker.join() returned
StopJoined ==
    /\ spc = "s_wait"
    /\ wpc[si] = "done"
    /\ joinable' = [joinable EXCEPT ![si] = "joined"]
    /\ si' = si + 1
    /\ spc' = "s_loop"
    /\ UNCHANGED <<coordVars, stop_flag, tasks, queue_mutex, condition, wpc, wtask,
                   has_work, start_time, now, notPool, enqVars, qpc, histVars>>

\* future.wait_for(remaining_time) timed out; leaving the if block destroys
\* the future returned by std::async
StopJoinTimeout ==
    /\ spc = "s_wait"
    /\ wpc[si] # "done"
    /\ now - start_time >= StopTimeout
    /\ spc' = "s_future_dtor"
    /\ UNCHANGED <<coordVars, poolVars, si, start_time, now, notPool, enqVars, qpc,
                   histVars>>

\* ~future() of a std::async(launch::async) future blocks until the async
\* task, worker.join(), has returned
StopFutureDtor ==
    /\ spc = "s_future_dtor"
    /\ wpc[si] = "done"
    /\ joinable' = [joinable EXCEPT ![si] = "joined"]
    /\ spc' = "s_detach"
    /\ UNCHANGED <<coordVars, stop_flag, tasks, queue_mutex, condition, wpc, wtask,
                   has_work, si, start_time, now, notPool, enqVars, qpc,
                   histVars>>

\* worker.detach(): std::system_error when the thread is no longer joinable,
\* which leaves stop() before the queue is cleared
StopDetach ==
    /\ spc = "s_detach"
    /\ IF joinable[si] = "joinable"
       THEN /\ joinable' = [joinable EXCEPT ![si] = "detached"]
            /\ si' = si + 1
            /\ spc' = "s_loop"
       ELSE /\ UNCHANGED <<joinable, si>>
            /\ spc' = "s_threw"
    /\ UNCHANGED <<coordVars, stop_flag, tasks, queue_mutex, condition, wpc, wtask,
                   has_work, start_time, now, notPool, enqVars, qpc, histVars>>

\* unique_lock lock(queue_mutex, try_to_lock); if (lock.owns_lock()) swap
\* with an empty queue, else only a warning; stop() returns
StopClearQueue ==
    /\ spc = "s_clear"
    /\ tasks' = IF queue_mutex = NoOne THEN <<>> ELSE tasks
    /\ spc' = "s_done"
    /\ UNCHANGED <<coordVars, stop_flag, queue_mutex, condition, wpc, wtask, has_work,
                   joinable, si, start_time, now, notPool, enqVars, qpc,
                   histVars>>

\* one second passes on the steady clock while stop() is blocked (the
\* statements in between take no time); a due timeout of future.wait_for
\* fires before more time passes
Tick ==
    /\ spc \in {"s_wait", "s_future_dtor"}
    /\ now < MaxTime
    /\ ~(spc = "s_wait" /\ now - start_time >= StopTimeout)
    /\ now' = now + 1
    /\ UNCHANGED <<coordVars, poolVars, stopVars, notPool, enqVars, qpc, histVars>>

Next ==
    \/ \E w \in Workers : WorkerLoop(w)
    \/ \E w \in Workers : WorkerLock(w)
    \/ \E w \in Workers : WorkerBlock(w)
    \/ \E w \in Workers : WorkerWake(w)
    \/ \E w \in Workers : WorkerTimeout(w)
    \/ \E w \in Workers : WorkerCheck(w)
    \/ \E w \in Workers : WorkerPop(w)
    \/ \E w \in Workers : WorkerFinish(w)
    \/ \E w \in Workers : WorkerExiting(w)
    \/ AcceptLoop
    \/ EnqueueCall
    \/ EnqueueTryLock
    \/ EnqueueLock
    \/ EnqueuePush
    \/ EnqueueNotify
    \/ QueueSizeTryLock
    \/ QueueSizeReturn
    \/ CleanupRequestShutdown
    \/ StopBegin
    \/ StopNextWorker
    \/ StopJoined
    \/ StopJoinTimeout
    \/ StopFutureDtor
    \/ StopDetach
    \/ StopClearQueue
    \/ Tick

Spec == Init /\ [][Next]_vars

\* ------------------------------------------------------------------------
\* ShutdownCoordinator driven through its operations (specification SpecCoord)
\* ------------------------------------------------------------------------

pool == <<stop_flag, tasks, queue_mutex, condition, wpc, wtask, has_work, joinable, stopVars, now, enqVars, qpc, histVars>>
notCoord == <<pool, serverVars, timeVars, lockVars, httpVars, protoVars>>

\* RequestShutdownStore as it would be if the flag were stored without
\* taking shutdown_mutex
RequestShutdownStoreNoLock(c) ==
    /\ cpc[c] = "idle"
    /\ shutdown_requested' = TRUE
    /\ cpc' = [cpc EXCEPT ![c] = "rs_notify"]
    /\ UNCHANGED <<active_threads, shutdown_mutex, shutdown_cv, all_threads_stopped_cv,
                   registered_threads, cret, ctimed, cremaining, creg, notCoord>>

\* request_shutdown(): { lock_guard lock(shutdown_mutex); shutdown_requested.store(true); }
RequestShutdownStore(c) ==
    /\ cpc[c] = "idle"
    /\ shutdown_mutex = NoOne
    /\ shutdown_requested' = TRUE
    /\ cpc' = [cpc EXCEPT ![c] = "rs_notify"]
    /\ UNCHANGED <<active_threads, shutdown_mutex, shutdown_cv, all_threads_stopped_cv,
                   registered_threads, cret, ctimed, cremaining, creg, notCoord>>

\* request_shutdown(): shutdown_cv.notify_all()
RequestShutdownNotify(c) ==
    /\ cpc[c] = "rs_notify"
    /\ shutdown_cv' = {}
    /\ cpc' = [cpc EXCEPT ![c] = "idle"]
    /\ UNCHANGED <<coordVars, shutdown_mutex, all_threads_stopped_cv, registered_threads,
                   cret, ctimed, cremaining, creg, notCoord>>

\* wait_for_shutdown(timeout): unique_lock lock(shutdown_mutex); the first
\* evaluation of the predicate; a true predicate returns true at once
WaitShutdownLock(c) ==
    /\ cpc[c] = "idle"
    /\ shutdown_mutex = NoOne
    /\ IF shutdown_requested
       THEN /\ cret' = [cret EXCEPT ![c] = "true"]
            /\ cpc' = [cpc EXCEPT ![c] = "ws_ret"]
            /\ shutdown_mutex' = NoOne
       ELSE /\ cret' = cret
            /\ cpc' = [cpc EXCEPT ![c] = "ws_block"]
            /\ shutdown_mutex' = CallerThread(c)
    /\ UNCHANGED <<coordVars, shutdown_cv, all_threads_stopped_cv, registered_threads,
                   ctimed, cremaining, creg, notCoord>>

\* shutdown_cv.wait_until: release shutdown_mutex and block, atomically
WaitShutdownBlock(c) ==
    /\ cpc[c] = "ws_block"
    /\ shutdown_mutex' = NoOne
    /\ shutdown_cv' = shutdown_cv \cup {c}
    /\ cpc' = [cpc EXCEPT ![c] = "ws_waiting"]
    /\ UNCHANGED <<coordVars, all_threads_stopped_cv, registered_threads, cret,
                   ctimed, cremaining, creg, notCoord>>

\* a notified caller re-acquires the mutex and evaluates the predicate again
WaitShutdownWake(c) ==
    /\ cpc[c] = "ws_waiting"
    /\ c \notin shutdown_cv
    /\ shutdown_mutex = NoOne
    /\ IF shutdown_requested
       THEN /\ cret' = [cret EXCEPT ![c] = "true"]
            /\ cpc' = [cpc EXCEPT ![c] = "ws_ret"]
            /\ shutdown_mutex' = NoOne
       ELSE /\ cret' = cret
            /\ cpc' = [cpc EXCEPT ![c] = "ws_block"]
            /\ shutdown_mutex' = CallerThread(c)
    /\ UNCHANGED <<coordVars, shutdown_cv, all_threads_stopped_cv, registered_threads,
                   ctimed, cremaining, creg, notCoord>>

\* the timeout elapses: re-acquire the mutex and return pred()
WaitShutdownTimeout(c) ==
    /\ cpc[c] = "ws_waiting"
    /\ c \in shutdown_cv
    /\ shutdown_mutex = NoOne
    /\ shutdown_cv' = shutdown_cv \ {c}
    /\ ctimed' = [ctimed EXCEPT ![c] = TRUE]
    /\ cret' = [cret EXCEPT ![c] = IF shutdown_requested THEN "true" ELSE "false"]
    /\ cpc' = [cpc EXCEPT ![c] = "ws_ret"]
    /\ UNCHANGED <<coordVars, shutdown_mutex, all_threads_stopped_cv, registered_threads,
                   cremaining, creg, notCoord>>

\* the caller takes the result of wait_for_shutdown and goes on
WaitShutdownReturn(c) ==
    /\ cpc[c] = "ws_ret"
    /\ cpc' = [cpc EXCEPT ![c] = "idle"]
    /\ cret' = [cret EXCEPT ![c] = "none"]
    /\ ctimed' = [ctimed EXCEPT ![c] = FALSE]
    /\ UNCHANGED <<coordVars, shutdown_mutex, shutdown_cv, all_threads_stopped_cv,
                   registered_threads, cremaining, creg, notCoord>>

\* register_thread(thread): under thread_registry_mutex, push_back and
\* active_threads++
RegisterThread(c) ==
    /\ cpc[c] = "idle"
    /\ creg[c] = "no"
    /\ registered_threads' = registered_threads \cup {c}
    /\ active_threads' = active_threads + 1
    /\ creg' = [creg EXCEPT ![c] = "registered"]
    /\ UNCHANGED <<shutdown_requested, shutdown_mutex, shutdown_cv, all_threads_stopped_cv,
                   cpc, cret, ctimed, cremaining, notCoord>>

\* thread_exiting(): int remaining = --active_threads;
ThreadExiting(c) ==
    /\ cpc[c] = "idle"
    /\ creg[c] = "registered"
    /\ active_threads' = active_threads - 1
    /\ cremaining' = [cremaining EXCEPT ![c] = active_threads - 1]
    /\ creg' = [creg EXCEPT ![c] = "exited"]
    /\ cpc' = [cpc EXCEPT ![c] = "te_notify"]
    /\ UNCHANGED <<shutdown_requested, shutdown_mutex, shutdown_cv, all_threads_stopped_cv,
                   registered_threads, cret, ctimed, notCoord>>

\* thread_exiting(): if (remaining == 0) all_threads_stopped_cv.notify_all();
ThreadExitingNotify(c) ==
    /\ cpc[c] = "te_notify"
    /\ all_threads_stopped_cv' = IF cremaining[c] = 0 THEN {} ELSE all_threads_stopped_cv
    /\ cpc' = [cpc EXCEPT ![c] = "te_end"]
    /\ UNCHANGED <<coordVars, shutdown_mutex, shutdown_cv, registered_threads, cret,
                   ctimed, cremaining, creg, notCoord>>

\* thread_exiting() returns; the thread ends
ThreadExitingReturn(c) ==
    /\ cpc[c] = "te_end"
    /\ cpc' = [cpc EXCEPT ![c] = "ended"]
    /\ cremaining' = [cremaining EXCEPT ![c] = 0]
    /\ UNCHANGED <<coordVars, shutdown_mutex, shutdown_cv, all_threads_stopped_cv,
                   registered_threads, cret, ctimed, creg, notCoord>>

\* wait_for_all_threads(timeout): unique_lock lock(shutdown_mutex); the first
\* evaluation of active_threads.load() == 0; a true predicate returns true
WaitAllLock(c) ==
    /\ cpc[c] = "idle"
    /\ shutdown_mutex = NoOne
    /\ IF active_threads = 0
       THEN /\ cret' = [cret EXCEPT ![c] = "true"]
            /\ cpc' = [cpc EXCEPT ![c] = "wa_ret"]
            /\ shutdown_mutex' = NoOne
       ELSE /\ cret' = cret
            /\ cpc' = [cpc EXCEPT ![c] = "wa_block"]
            /\ shutdown_mutex' = CallerThread(c)
    /\ UNCHANGED <<coordVars, shutdown_cv, all_threads_stopped_cv, registered_threads,
                   ctimed, cremaining, creg, notCoord>>

\* all_threads_stopped_cv.wait_until: release shutdown_mutex and block
WaitAllBlock(c) ==
    /\ cpc[c] = "wa_block"
    /\ shutdown_mutex' = NoOne
    /\ all_threads_stopped_cv' = all_threads_stopped_cv \cup {c}
    /\ cpc' = [cpc EXCEPT ![c] = "wa_waiting"]
    /\ UNCHANGED <<coordVars, shutdown_cv, registered_threads, cret, ctimed,
                   cremaining, creg, notCoord>>

\* a notified caller re-acquires the mutex and evaluates the predicate again
WaitAllWake(c) ==
    /\ cpc[c] = "wa_waiting"
    /\ c \notin all_threads_stopped_cv
    /\ shutdown_mutex = NoOne
    /\ IF active_threads = 0
       THEN /\ cret' = [cret EXCEPT ![c] = "true"]
            /\ cpc' = [cpc EXCEPT ![c] = "wa_ret"]
            /\ shutdown_mutex' = NoOne
       ELSE /\ cret' = cret
            /\ cpc' = [cpc EXCEPT ![c] = "wa_block"]
            /\ shutdown_mutex' = CallerThread(c)
    /\ UNCHANGED <<coordVars, shutdown_cv, all_threads_stopped_cv, registered_threads,
                   ctimed, cremaining, creg, notCoord>>

\* the timeout elapses: re-acquire the mutex and return pred()
WaitAllTimeout(c) ==
    /\ cpc[c] = "wa_waiting"
    /\ c \in all_threads_stopped_cv
    /\ shutdown_mutex = NoOne
    /\ all_threads_stopped_cv' = all_threads_stopped_cv \ {c}
    /\ ctimed' = [ctimed EXCEPT ![c] = TRUE]
    /\ cret' = [cret EXCEPT ![c] = IF active_threads = 0 THEN "true" ELSE "false"]
    /\ cpc' = [cpc EXCEPT ![c] = "wa_ret"]
    /\ UNCHANGED <<coordVars, shutdown_mutex, shutdown_cv, registered_threads,
                   cremaining, creg, notCoord>>

\* the caller takes the result of wait_for_all_threads and goes on
WaitAllReturn(c) ==
    /\ cpc[c] = "wa_ret"
    /\ cpc' = [cpc EXCEPT ![c] = "idle"]
    /\ cret' = [cret EXCEPT ![c] = "none"]
    /\ ctimed' = [ctimed EXCEPT ![c] = FALSE]
    /\ UNCHANGED <<coordVars, shutdown_mutex, shutdown_cv, all_threads_stopped_cv,
                   registered_threads, cremaining, creg, notCoord>>

\* ForceShutdownThreads as it would be if it also reset the latch
ForceShutdownThreadsReset(c) ==
    /\ cpc[c] = "idle"
    /\ registered_threads # {}
    /\ registered_threads' = {}
    /\ active_threads' = 0
    /\ shutdown_requested' = FALSE
    /\ UNCHANGED <<shutdown_mutex, shutdown_cv, all_threads_stopped_cv,
                   cpc, cret, ctimed, cremaining, creg, notCoord>>

\* force_shutdown_threads(): under thread_registry_mutex, abandon the
\* handles, registered_threads.clear(), active_threads.store(0)
ForceShutdownThreads(c) ==
    /\ cpc[c] = "idle"
    /\ registered_threads # {}
    /\ registered_threads' = {}
    /\ active_threads' = 0
    /\ UNCHANGED <<shutdown_requested, shutdown_mutex, shutdown_cv, all_threads_stopped_cv,
                   cpc, cret, ctimed, cremaining, creg, notCoord>>

NextCoord ==
    \/ \E c \in Callers : RequestShutdownStore(c)
    \/ \E c \in Callers : RequestShutdownNotify(c)
    \/ \E c \in Callers : WaitShutdownLock(c)
    \/ \E c \in Callers : WaitShutdownBlock(c)
    \/ \E c \in Callers : WaitShutdownWake(c)
    \/ \E c \in Callers : WaitShutdownTimeout(c)
    \/ \E c \in Callers : WaitShutdownReturn(c)
    \/ \E c \in Callers : RegisterThread(c)
    \/ \E c \in Callers : ThreadExiting(c)
    \/ \E c \in Callers : ThreadExitingNotify(c)
    \/ \E c \in Callers : ThreadExitingReturn(c)
    \/ \E c \in Callers : WaitAllLock(c)
    \/ \E c \in Callers : WaitAllBlock(c)
    \/ \E c \in Callers : WaitAllWake(c)
    \/ \E c \in Callers : WaitAllTimeout(c)
    \/ \E c \in Callers : WaitAllReturn(c)
    \/ \E c \in Callers : ForceShutdownThreads(c)

SpecCoord == Init /\ [][NextCoord]_vars

\* ------------------------------------------------------------------------
\* A server run: WebServer::start, the handler tasks, the connection
\* cleanup thread, the WebSocket handler and WebServer::cleanup
\* (specification SpecServer).  The pool is seen from outside: a handler
\* task is queued, dropped, running or done.  A client socket is named by
\* the connection it was accepted for; descriptor numbers are not reused.
\* One turn of a loop (its condition, then its body) is one step.
\* ------------------------------------------------------------------------

sharedVars == <<shutdown_requested, active_threads, stop_flag>>
notServer == <<tasks, queue_mutex, condition, wpc, wtask, has_work, joinable, stopVars,
               now, enqVars, qpc, histVars, harnessVars, timeVars, lockVars, httpVars, protoVars>>

\* positions of a handler task in which a pool worker is executing it
InHandler == {"h_loop", "ws_loop", "guard", "ws_guard"}

\* names of the loops of a server run
Loop(n, i) == [loop |-> n, id |-> i]

\* `missed` after a loop has evaluated its condition and gone into another
\* turn: the loop is added when the coordinator's flag was set at that moment
Turn(l) == IF shutdown_requested THEN missed \cup {l} ELSE missed

\* ---- main.cpp and WebServer::start ----

\* main: server.enable_keep_alive(true, keep_alive_timeout), before start()
EnableKeepAlive ==
    /\ apc = "a_init"
    /\ ~keep_alive_enabled
    /\ keep_alive_enabled' = TRUE
    /\ UNCHANGED <<sharedVars, g_shutdown_requested, running, metrics_running, server_fd,
                   regVars, acceptVars, hpc, sweepVars, loopVars, xpc, closes, missed,
                   notServer>>

\* WebServer::start up to the accept loop: websocket_handler->start()
\* (running = true, broadcast and ping threads), start_metrics_collection()
\* (metrics_running, metrics thread), the cleanup thread if keep-alive is on
ServerStart ==
    /\ apc = "a_init"
    /\ xpc = "x_idle"
    /\ running' = TRUE
    /\ metrics_running' = TRUE
    /\ bpc' = "b_loop"
    /\ ppc' = "p_loop"
    /\ mpc' = "m_loop"
    /\ kpc' = IF keep_alive_enabled THEN "k_loop" ELSE "k_none"
    /\ apc' = "a_loop"
    /\ UNCHANGED <<sharedVars, g_shutdown_requested, keep_alive_enabled, server_fd,
                   regVars, client_socket, hpc, expired_connections, xpc, closes, missed,
                   notServer>>

\* while (!coordinator.is_shutdown_requested()) { select(1 s) returns 0 or
\* EINTR: continue
AcceptPoll ==
    /\ apc = "a_loop"
    /\ IF shutdown_requested
       THEN apc' = "a_exit" /\ missed' = missed
       ELSE apc' = "a_loop" /\ missed' = Turn(Loop("accept", 0))
    /\ UNCHANGED <<sharedVars, flagVars, regVars, client_socket, hpc, sweepVars, loopVars,
                   xpc, closes, notServer>>

\* the loop condition passed and select fails: break
AcceptSelectFail ==
    /\ apc = "a_loop"
    /\ ~shutdown_requested
    /\ apc' = "a_exit"
    /\ UNCHANGED <<sharedVars, flagVars, regVars, client_socket, hpc, sweepVars, loopVars,
                   xpc, closes, missed, notServer>>

\* the loop condition passed, select reports the listening socket readable
\* and accept returns the next client socket
AcceptClient(c) ==
    /\ apc = "a_loop"
    /\ ~shutdown_requested
    /\ server_fd = "open"
    /\ hpc[c] = "none"
    /\ \A d \in Conns : d < c => hpc[d] # "none"
    /\ client_socket' = c
    /\ apc' = "a_accepted"
    /\ UNCHANGED <<sharedVars, flagVars, regVars, hpc, sweepVars, loopVars,
                   xpc, closes, missed, notServer>>

\* if (coordinator.is_shutdown_requested()) { close(client_socket); break; }
AcceptCheck ==
    /\ apc = "a_accepted"
    /\ IF shutdown_requested
       THEN /\ closes' = [closes EXCEPT ![client_socket] = @ + 1]
            /\ hpc' = [hpc EXCEPT ![client_socket] = "refused"]
            /\ client_socket' = 0
            /\ apc' = "a_exit"
       ELSE /\ apc' = "a_register"
            /\ UNCHANGED <<closes, hpc, client_socket>>
    /\ UNCHANGED <<sharedVars, flagVars, regVars, sweepVars, loopVars, xpc,
                   missed, notServer>>

\* g_resource_manager.register_socket(client_socket);
\* if (keep_alive_enabled) add_connection_safe(client_socket);
AcceptRegister ==
    /\ apc = "a_register"
    /\ sockets' = sockets \cup {client_socket}
    /\ connection_timestamps' =
           IF keep_alive_enabled THEN connection_timestamps \cup {client_socket}
                                 ELSE connection_timestamps
    /\ apc' = "a_enqueue"
    /\ UNCHANGED <<sharedVars, flagVars, idle, connections, client_socket, hpc, sweepVars,
                   loopVars, xpc, closes, missed, notServer>>

\* thread_pool->enqueue(handle_client_task_safe(client_socket)); enqueue
\* drops the task when stop_flag or the coordinator's flag is set
AcceptEnqueue ==
    /\ apc = "a_enqueue"
    /\ hpc' = [hpc EXCEPT ![client_socket] =
                  IF stop_flag \/ shutdown_requested THEN "dropped" ELSE "queued"]
    /\ client_socket' = 0
    /\ apc' = "a_loop"
    /\ UNCHANGED <<sharedVars, flagVars, regVars, sweepVars, loopVars, xpc, closes,
                   missed, notServer>>

\* after the loop: wait_for_all_threads(5 s), and force_shutdown_threads
\* when the counter is not zero by then; thread_exiting only decrements, so
\* a counter that is not zero stays so until it is forced
AcceptWaitThreads ==
    /\ apc = "a_exit"
    /\ active_threads' = 0
    /\ apc' = "a_done"
    /\ UNCHANGED <<shutdown_requested, stop_flag, flagVars, regVars, client_socket, hpc,
                   sweepVars, loopVars, xpc, closes, missed, notServer>>

\* ---- WebServer::handle_client_task_safe and what it calls ----

\* a worker starts the task: SocketGuard guard(client_socket, this);
\* if (coordinator.is_shutdown_requested()) return;
HandlerStart(c) ==
    /\ hpc[c] = "queued"
    /\ hpc' = [hpc EXCEPT ![c] = IF shutdown_requested THEN "guard" ELSE "h_loop"]
    /\ UNCHANGED <<sharedVars, flagVars, regVars, acceptVars, sweepVars, loopVars, xpc,
                   closes, missed, notServer>>

\* handle_http_connection: if (coordinator.is_shutdown_requested()) break;
\* or read_request_with_timeout fails (5 s timeout, error, peer closed), the
\* request does not parse, or the upgrade is refused: break
HandlerBreak(c) ==
    /\ hpc[c] = "h_loop"
    /\ hpc' = [hpc EXCEPT ![c] = "guard"]
    /\ UNCHANGED <<sharedVars, flagVars, regVars, acceptVars, sweepVars, loopVars, xpc,
                   closes, missed, notServer>>

\* a regular request: handle_request, send_response_safe,
\* update_connection_timestamp_safe when the connection is kept, and
\* } while (keep_connection && keep_alive_enabled && !shutdown requested)
HandlerRequest(c, keep) ==
    /\ hpc[c] = "h_loop"
    /\ ~shutdown_requested
    /\ IF keep /\ keep_alive_enabled
       THEN /\ idle' = idle \ {c}
            /\ hpc' = hpc
            /\ missed' = Turn(Loop("http", c))
       ELSE /\ idle' = idle
            /\ hpc' = [hpc EXCEPT ![c] = "guard"]
            /\ missed' = missed
    /\ UNCHANGED <<sharedVars, flagVars, sockets, connection_timestamps, connections,
                   acceptVars, sweepVars, loopVars, xpc, closes, notServer>>

\* a WebSocket upgrade: handle_websocket_upgrade (refused when
\* g_shutdown_requested), then handle_websocket_connection's add_connection
HandlerUpgrade(c) ==
    /\ hpc[c] = "h_loop"
    /\ ~shutdown_requested
    /\ ~g_shutdown_requested
    /\ connections' = connections \cup {c}
    /\ hpc' = [hpc EXCEPT ![c] = "ws_loop"]
    /\ UNCHANGED <<sharedVars, flagVars, sockets, connection_timestamps, idle,
                   acceptVars, sweepVars, loopVars, xpc, closes, missed, notServer>>

\* handle_websocket_connection: while (running.load()) { recv: a frame was
\* handled, or nothing to read and a 10 ms sleep
WsIter(c) ==
    /\ hpc[c] = "ws_loop"
    /\ running
    /\ missed' = Turn(Loop("ws", c))
    /\ UNCHANGED <<sharedVars, flagVars, regVars, acceptVars, hpc, sweepVars, loopVars,
                   xpc, closes, notServer>>

\* the loop ends (running is false, a close frame, the peer closed, an
\* error); remove_connection(client_id); close(client_socket); return true;
\* and handle_http_connection returns to the task that did the upgrade
WsExit(c) ==
    /\ hpc[c] = "ws_loop"
    /\ connections' = connections \ {c}
    /\ closes' = [closes EXCEPT ![c] = @ + 1]
    /\ hpc' = [hpc EXCEPT ![c] = "ws_guard"]
    /\ UNCHANGED <<sharedVars, flagVars, sockets, connection_timestamps, idle,
                   acceptVars, sweepVars, loopVars, xpc, missed, notServer>>

\* ~SocketGuard: server->remove_connection_safe(socket);
\* g_resource_manager.unregister_socket(socket); close(socket);
SocketGuard(c) ==
    /\ hpc[c] \in {"guard", "ws_guard"}
    /\ connection_timestamps' = connection_timestamps \ {c}
    /\ idle' = idle \ {c}
    /\ sockets' = sockets \ {c}
    /\ closes' = [closes EXCEPT ![c] = @ + 1]
    /\ hpc' = [hpc EXCEPT ![c] = IF hpc[c] = "ws_guard" THEN "ws_done" ELSE "done"]
    /\ UNCHANGED <<sharedVars, flagVars, connections, acceptVars, sweepVars, loopVars,
                   xpc, missed, notServer>>

\* ---- the connection cleanup thread of WebServer::start ----

\* the clock passes connection_timeout since the socket's timestamp
ConnIdle(c) ==
    /\ c \in connection_timestamps
    /\ c \notin idle
    /\ idle' = idle \cup {c}
    /\ UNCHANGED <<sharedVars, flagVars, sockets, connection_timestamps, connections,
                   acceptVars, hpc, sweepVars, loopVars, xpc, closes, missed, notServer>>

\* while (!coord.is_shutdown_requested()) { if (coord.wait_for_shutdown(1 s))
\* break; manage_connections(); } coord.thread_exiting();
\* manage_connections collects the expired sockets under connection_mutex
\* and erases them from the map
SweeperIter ==
    /\ kpc = "k_loop"
    /\ IF shutdown_requested
       THEN /\ kpc' = "k_done"
            /\ active_threads' = active_threads - 1
            /\ UNCHANGED <<expired_connections, connection_timestamps, idle, missed>>
       ELSE /\ active_threads' = active_threads
            /\ expired_connections' = idle
            /\ connection_timestamps' = connection_timestamps \ idle
            /\ idle' = {}
            /\ kpc' = IF idle = {} THEN "k_loop" ELSE "k_close"
            /\ missed' = Turn(Loop("sweeper", 0))
    /\ UNCHANGED <<shutdown_requested, stop_flag, flagVars, sockets, connections,
                   acceptVars, hpc, loopVars, xpc, closes, notServer>>

\* manage_connections, outside the lock: shutdown(socket); close(socket);
\* g_resource_manager.unregister_socket(socket);
SweeperClose(c) ==
    /\ kpc = "k_close"
    /\ c \in expired_connections
    /\ \A d \in expired_connections : c <= d
    /\ closes' = [closes EXCEPT ![c] = @ + 1]
    /\ sockets' = sockets \ {c}
    /\ expired_connections' = expired_connections \ {c}
    /\ kpc' = IF expired_connections \ {c} = {} THEN "k_loop" ELSE "k_close"
    /\ UNCHANGED <<sharedVars, flagVars, connection_timestamps, idle, connections,
                   acceptVars, hpc, loopVars, xpc, missed, notServer>>

\* ---- WebSocketHandler::broadcast_loop_safe and ping_loop_safe ----

\* while (running.load() && !coordinator.is_shutdown_requested()) {
\* wait_for_shutdown(1 s), the broadcasts }  coordinator.thread_exiting();
BroadcastIter ==
    /\ bpc = "b_loop"
    /\ IF running /\ ~shutdown_requested
       THEN /\ bpc' = "b_loop"
            /\ active_threads' = active_threads
            /\ missed' = Turn(Loop("broadcast", 0))
       ELSE /\ bpc' = "b_done"
            /\ active_threads' = active_threads - 1
            /\ missed' = missed
    /\ UNCHANGED <<shutdown_requested, stop_flag, flagVars, regVars, acceptVars, hpc,
                   sweepVars, ppc, mpc, xpc, closes, notServer>>

\* while (running.load() && !coordinator.is_shutdown_requested()) {
\* wait_for_shutdown(30 s), send_ping to every connection, erase the ones
\* it failed for }  coordinator.thread_exiting();
PingIter(dead) ==
    /\ ppc = "p_loop"
    /\ IF running /\ ~shutdown_requested
       THEN /\ ppc' = "p_loop"
            /\ active_threads' = active_threads
            /\ connections' = connections \ dead
            /\ missed' = Turn(Loop("ping", 0))
       ELSE /\ dead = {}
            /\ ppc' = "p_done"
            /\ active_threads' = active_threads - 1
            /\ connections' = connections
            /\ missed' = missed
    /\ UNCHANGED <<shutdown_requested, stop_flag, flagVars, sockets, connection_timestamps,
                   idle, acceptVars, hpc, sweepVars, bpc, mpc, xpc, closes, notServer>>

\* ---- the metrics thread of start_metrics_collection ----

\* while (metrics_running && !g_shutdown_requested) { sleep_for(1 s);
\* record the sample }
MetricsIter ==
    /\ mpc = "m_loop"
    /\ IF metrics_running /\ ~g_shutdown_requested
       THEN mpc' = "m_loop" /\ missed' = Turn(Loop("metrics", 0))
       ELSE mpc' = "m_done" /\ missed' = missed
    /\ UNCHANGED <<sharedVars, flagVars, regVars, acceptVars, hpc, sweepVars, bpc, ppc,
                   xpc, closes, notServer>>

\* ---- main.cpp's signal_handler, ~WebServer and WebServer::cleanup ----

\* signal_handler: g_shutdown_requested = true, then cleanup() in a thread
SignalHandler ==
    /\ xpc = "x_idle"
    /\ apc # "a_init"
    /\ g_shutdown_requested' = TRUE
    /\ xpc' = "x_request"
    /\ UNCHANGED <<sharedVars, keep_alive_enabled, running, metrics_running, server_fd,
                   regVars, acceptVars, hpc, sweepVars, loopVars, closes, missed,
                   notServer>>

\* start() has returned to main, main returns: ~WebServer calls cleanup()
Destructor ==
    /\ xpc = "x_idle"
    /\ apc = "a_done"
    /\ xpc' = "x_request"
    /\ UNCHANGED <<sharedVars, flagVars, regVars, acceptVars, hpc, sweepVars, loopVars,
                   closes, missed, notServer>>

\* cleanup: coordinator.request_shutdown(); close(server_fd)
CleanupRequest ==
    /\ xpc = "x_request"
    /\ shutdown_requested' = TRUE
    /\ server_fd' = "closed"
    /\ xpc' = "x_metrics"
    /\ UNCHANGED <<active_threads, stop_flag, g_shutdown_requested, keep_alive_enabled,
                   running, metrics_running, regVars, acceptVars, hpc, sweepVars,
                   loopVars, closes, missed, notServer>>

\* stop_metrics_collection: metrics_running = false
CleanupStopMetrics ==
    /\ xpc = "x_metrics"
    /\ metrics_running' = FALSE
    /\ xpc' = "x_metrics_join"
    /\ UNCHANGED <<sharedVars, g_shutdown_requested, keep_alive_enabled, running,
                   server_fd, regVars, acceptVars, hpc, sweepVars, loopVars, closes,
                   missed, notServer>>

\* stop_metrics_collection: metrics_thread.join()
CleanupJoinMetrics ==
    /\ xpc = "x_metrics_join"
    /\ mpc \in {"m_none", "m_done"}
    /\ xpc' = "x_ws"
    /\ UNCHANGED <<sharedVars, flagVars, regVars, acceptVars, hpc, sweepVars, loopVars,
                   closes, missed, notServer>>

\* WebSocketHandler::stop: running = false; coordinator.request_shutdown()
WsStop ==
    /\ xpc = "x_ws"
    /\ running' = FALSE
    /\ shutdown_requested' = TRUE
    /\ xpc' = "x_ws_join"
    /\ UNCHANGED <<active_threads, stop_flag, g_shutdown_requested, keep_alive_enabled,
                   metrics_running, server_fd, regVars, acceptVars, hpc, sweepVars,
                   loopVars, closes, missed, notServer>>

\* WebSocketHandler::stop: the two join blocks, each ending when its future
\* is destroyed, which is when the joined thread has ended; then shutdown
\* and close of every socket of connections, and connections.clear()
WsStopCloseAll ==
    /\ xpc = "x_ws_join"
    /\ bpc \in {"b_none", "b_done"}
    /\ ppc \in {"p_none", "p_done"}
    /\ closes' = [c \in Conns |-> IF c \in connections THEN closes[c] + 1 ELSE closes[c]]
    /\ connections' = {}
    /\ xpc' = "x_pool"
    /\ UNCHANGED <<sharedVars, flagVars, sockets, connection_timestamps, idle,
                   acceptVars, hpc, sweepVars, loopVars, missed, notServer>>

\* ThreadPool::stop: stop_flag.store(true), notify_all, request_shutdown
CleanupStopPool ==
    /\ xpc = "x_pool"
    /\ stop_flag' = TRUE
    /\ shutdown_requested' = TRUE
    /\ xpc' = "x_pool_join"
    /\ UNCHANGED <<active_threads, flagVars, regVars, acceptVars, hpc, sweepVars,
                   loopVars, closes, missed, notServer>>

\* ThreadPool::stop: every worker joined within the 3 s; the tasks still
\* queued are never run
CleanupPoolJoined ==
    /\ xpc = "x_pool_join"
    /\ \A c \in Conns : hpc[c] \notin InHandler
    /\ hpc' = [c \in Conns |-> IF hpc[c] = "queued" THEN "dropped" ELSE hpc[c]]
    /\ xpc' = "x_close_all"
    /\ UNCHANGED <<sharedVars, flagVars, regVars, acceptVars, sweepVars, loopVars,
                   closes, missed, notServer>>

\* ThreadPool::stop: the 3 s pass while a worker is still in a handler
CleanupPoolTimeout ==
    /\ xpc = "x_pool_join"
    /\ \E c \in Conns : hpc[c] \in InHandler
    /\ xpc' = "x_pool_dtor"
    /\ UNCHANGED <<sharedVars, flagVars, regVars, acceptVars, hpc, sweepVars, loopVars,
                   closes, missed, notServer>>

\* ThreadPool::stop: the future's destructor returns once the worker has
\* ended, detach() of the joined thread throws, and cleanup() is left by the
\* exception
CleanupPoolThrow ==
    /\ xpc = "x_pool_dtor"
    /\ \A c \in Conns : hpc[c] \notin InHandler
    /\ hpc' = [c \in Conns |-> IF hpc[c] = "queued" THEN "dropped" ELSE hpc[c]]
    /\ xpc' = "x_threw"
    /\ UNCHANGED <<sharedVars, flagVars, regVars, acceptVars, sweepVars, loopVars,
                   closes, missed, notServer>>

\* g_resource_manager.close_all_sockets(); connection_timestamps.clear()
CleanupCloseAllSockets ==
    /\ xpc = "x_close_all"
    /\ closes' = [c \in Conns |-> IF c \in sockets THEN closes[c] + 1 ELSE closes[c]]
    /\ sockets' = {}
    /\ connection_timestamps' = {}
    /\ idle' = {}
    /\ xpc' = "x_wait"
    /\ UNCHANGED <<sharedVars, flagVars, connections, acceptVars, hpc, sweepVars,
                   loopVars, missed, notServer>>

\* wait_for_all_threads(3 s), and force_shutdown_threads when the counter
\* is not zero by then
CleanupWaitThreads ==
    /\ xpc = "x_wait"
    /\ active_threads' = 0
    /\ xpc' = "x_done"
    /\ UNCHANGED <<shutdown_requested, stop_flag, flagVars, regVars, acceptVars, hpc,
                   sweepVars, loopVars, closes, missed, notServer>>

NextServer ==
    \/ EnableKeepAlive
    \/ ServerStart
    \/ AcceptPoll
    \/ AcceptSelectFail
    \/ \E c \in Conns : AcceptClient(c)
    \/ AcceptCheck
    \/ AcceptRegister
    \/ AcceptEnqueue
    \/ AcceptWaitThreads
    \/ \E c \in Conns : HandlerStart(c)
    \/ \E c \in Conns : HandlerBreak(c)
    \/ \E c \in Conns, keep \in BOOLEAN : HandlerRequest(c, keep)
    \/ \E c \in Conns : HandlerUpgrade(c)
    \/ \E c \in Conns : WsIter(c)
    \/ \E c \in Conns : WsExit(c)
    \/ \E c \in Conns : SocketGuard(c)
    \/ \E c \in Conns : ConnIdle(c)
    \/ SweeperIter
    \/ \E c \in Conns : SweeperClose(c)
    \/ BroadcastIter
    \/ \E dead \in SUBSET connections : PingIter(dead)
    \/ MetricsIter
    \/ SignalHandler
    \/ Destructor
    \/ CleanupRequest
    \/ CleanupStopMetrics
    \/ CleanupJoinMetrics
    \/ WsStop
    \/ WsStopCloseAll
    \/ CleanupStopPool
    \/ CleanupPoolJoined
    \/ CleanupPoolTimeout
    \/ CleanupPoolThrow
    \/ CleanupCloseAllSockets
    \/ CleanupWaitThreads

SpecServer == Init /\ [][NextServer]_vars

\* ------------------------------------------------------------------------
\* The keep-alive sweeper against a clock (specification SpecSweep): a
\* server started with keep-alive on and no shutdown.  The clock counts
\* 1/TicksPerSec seconds; the steps of a thread take no time, its waits do.
\* ------------------------------------------------------------------------

\* WebServer::connection_timeout after enable_keep_alive(true, timeout_seconds)
connection_timeout == KeepAliveTimeout

\* std::chrono::duration_cast<std::chrono::seconds>(d): truncation
CastSeconds(d) == d \div TicksPerSec

\* manage_connections: duration_cast<seconds>(now - conn.second) > connection_timeout
Expired(c) == CastSeconds(ticks - stamp[c]) > connection_timeout

notSweep == <<sharedVars, flagVars, connections, acceptVars, loopVars, xpc, missed,
              tasks, queue_mutex, condition, wpc, wtask, has_work, joinable, stopVars,
              now, enqVars, qpc, histVars, harnessVars, lockVars, httpVars, protoVars>>

\* the accept loop takes a client: register_socket, add_connection_safe
\* (connection_timestamps[socket] = now), and a worker starts its handler
TimedAccept(c) ==
    /\ apc = "a_loop"
    /\ hpc[c] = "none"
    /\ \A d \in Conns : d < c => hpc[d] # "none"
    /\ sockets' = sockets \cup {c}
    /\ IF keep_alive_enabled
       THEN /\ connection_timestamps' = connection_timestamps \cup {c}
            /\ stamp' = [stamp EXCEPT ![c] = ticks]
       ELSE UNCHANGED <<connection_timestamps, stamp>>
    /\ hpc' = [hpc EXCEPT ![c] = "h_loop"]
    /\ UNCHANGED <<idle, sweepVars, closes, ticks, next_sweep, in_request, notSweep>>

\* the first bytes of a request arrive: the handler is in
\* read_request_with_timeout (up to 5 s for the headers) and then in
\* handle_request; nothing is written to connection_timestamps
TimedArrive(c) ==
    /\ hpc[c] = "h_loop"
    /\ c \notin in_request
    /\ in_request' = in_request \cup {c}
    /\ UNCHANGED <<regVars, hpc, sweepVars, closes, ticks, stamp, next_sweep, notSweep>>

\* a kept request has been answered: update_connection_timestamp_safe sets
\* it->second = now when the socket is still in the map
TimedRequest(c) ==
    /\ hpc[c] = "h_loop"
    /\ keep_alive_enabled
    /\ stamp' = IF c \in connection_timestamps THEN [stamp EXCEPT ![c] = ticks] ELSE stamp
    /\ in_request' = in_request \ {c}
    /\ UNCHANGED <<regVars, hpc, sweepVars, closes, ticks, next_sweep, notSweep>>

\* the cleanup thread: while (!coord.is_shutdown_requested()) {
\* coord.wait_for_shutdown(1 s) begins
SweepWaitBegin ==
    /\ kpc = "k_loop"
    /\ ~shutdown_requested
    /\ next_sweep' = ticks + TicksPerSec
    /\ kpc' = "k_wait"
    /\ UNCHANGED <<regVars, hpc, expired_connections, closes, ticks, stamp, in_request,
                   notSweep>>

\* the wait times out and manage_connections() collects the expired sockets
\* under connection_mutex and erases them from the map
SweepTimeout ==
    /\ kpc = "k_wait"
    /\ ticks = next_sweep
    /\ LET exp == {c \in connection_timestamps : Expired(c)}
       IN  /\ expired_connections' = exp
           /\ connection_timestamps' = connection_timestamps \ exp
           /\ kpc' = IF exp = {} THEN "k_loop" ELSE "k_close"
    /\ UNCHANGED <<sockets, idle, connections, hpc, closes, timeVars, notSweep>>

\* the clock advances while no thread has a step that is due
SweepTick ==
    /\ kpc = "k_wait"
    /\ ticks < next_sweep
    /\ ticks < MaxTicks
    /\ ticks' = ticks + 1
    /\ UNCHANGED <<regVars, hpc, sweepVars, closes, stamp, next_sweep, in_request,
                   notSweep>>

NextSweep ==
    \/ EnableKeepAlive
    \/ ServerStart
    \/ \E c \in Conns : TimedAccept(c)
    \/ \E c \in Conns : TimedArrive(c)
    \/ \E c \in Conns : TimedRequest(c)
    \/ \E c \in Conns : HandlerBreak(c)
    \/ \E c \in Conns : SocketGuard(c)
    \/ SweepWaitBegin
    \/ SweepTimeout
    \/ \E c \in Conns : SweeperClose(c)
    \/ SweepTick

SpecSweep == Init /\ [][NextSweep]_vars

\* ------------------------------------------------------------------------
\* The tracker mutex and the WebSocket registry mutex (specification
\* SpecLocks): the operations on connection_timestamps and on connections
\* with their lock, their access and their socket I/O as separate steps.
\* ------------------------------------------------------------------------

notLocks == <<sharedVars, flagVars, acceptVars, ppc, mpc, missed, timeVars,
              tasks, queue_mutex, condition, wpc, wtask, has_work, joinable, stopVars,
              now, enqVars, qpc, histVars, harnessVars, httpVars, protoVars>>

\* the accept loop takes a client: register_socket, add_connection_safe
\* (lock_guard on connection_mutex), and a worker starts its handler
LockedAccept(c) ==
    /\ apc = "a_loop"
    /\ ~shutdown_requested
    /\ hpc[c] = "none"
    /\ \A d \in Conns : d < c => hpc[d] # "none"
    /\ keep_alive_enabled => connection_mutex = NoOne
    /\ sockets' = sockets \cup {c}
    /\ connection_timestamps' =
           IF keep_alive_enabled THEN connection_timestamps \cup {c}
                                 ELSE connection_timestamps
    /\ hpc' = [hpc EXCEPT ![c] = "h_loop"]
    /\ UNCHANGED <<idle, connections, sweepVars, bpc, xpc, closes, lockVars, notLocks>>

\* GET /api/stats: handle_server_stats_api evaluates
\* connection_timestamps.size(); it takes no lock
StatsRead(c) ==
    /\ hpc[c] = "h_loop"
    /\ hpc' = [hpc EXCEPT ![c] = "h_stats"]
    /\ UNCHANGED <<regVars, sweepVars, bpc, xpc, closes, lockVars, notLocks>>

\* the size has been read; the response is built and sent
StatsReturn(c) ==
    /\ hpc[c] = "h_stats"
    /\ hpc' = [hpc EXCEPT ![c] = "h_loop"]
    /\ UNCHANGED <<regVars, sweepVars, bpc, xpc, closes, lockVars, notLocks>>

\* update_connection_timestamp_safe: lock_guard lock(connection_mutex)
UpdateLock(c) ==
    /\ hpc[c] = "h_loop"
    /\ keep_alive_enabled
    /\ connection_mutex = NoOne
    /\ connection_mutex' = HandlerThread(c)
    /\ hpc' = [hpc EXCEPT ![c] = "h_update"]
    /\ UNCHANGED <<regVars, sweepVars, bpc, xpc, closes, connections_mutex, notLocks>>

\* update_connection_timestamp_safe: find, it->second = now, unlock
UpdateUnlock(c) ==
    /\ hpc[c] = "h_update"
    /\ idle' = idle \ {c}
    /\ connection_mutex' = NoOne
    /\ hpc' = [hpc EXCEPT ![c] = "h_loop"]
    /\ UNCHANGED <<sockets, connection_timestamps, connections, sweepVars, bpc, xpc,
                   closes, connections_mutex, notLocks>>

\* handle_websocket_upgrade, then WebSocketHandler::add_connection
\* (lock_guard on connections_mutex)
LockedUpgrade(c) ==
    /\ hpc[c] = "h_loop"
    /\ ~shutdown_requested
    /\ ~g_shutdown_requested
    /\ connections_mutex = NoOne
    /\ connections' = connections \cup {c}
    /\ hpc' = [hpc EXCEPT ![c] = "ws_loop"]
    /\ UNCHANGED <<sockets, connection_timestamps, idle, sweepVars, bpc, xpc, closes,
                   lockVars, notLocks>>

\* a text frame asks for metrics: send_message_to_client takes
\* connections_mutex with try_to_lock
WsReplyLock(c) ==
    /\ hpc[c] = "ws_loop"
    /\ running
    /\ connections_mutex = NoOne
    /\ connections_mutex' = HandlerThread(c)
    /\ hpc' = [hpc EXCEPT ![c] = "ws_send"]
    /\ UNCHANGED <<regVars, sweepVars, bpc, xpc, closes, connection_mutex, notLocks>>

\* send_message_to_client: find, send_frame (erase when it fails), unlock
WsReplySend(c, ok) ==
    /\ hpc[c] = "ws_send"
    /\ connections' = IF ok THEN connections ELSE connections \ {c}
    /\ connections_mutex' = NoOne
    /\ hpc' = [hpc EXCEPT ![c] = "ws_loop"]
    /\ UNCHANGED <<sockets, connection_timestamps, idle, sweepVars, bpc, xpc, closes,
                   connection_mutex, notLocks>>

\* a ping frame arrived: handle_websocket_connection calls
\* send_pong(client_socket), that is send_frame and send(), with no lock
WsPongBegin(c) ==
    /\ hpc[c] = "ws_loop"
    /\ running
    /\ hpc' = [hpc EXCEPT ![c] = "ws_pong"]
    /\ UNCHANGED <<regVars, sweepVars, bpc, xpc, closes, lockVars, notLocks>>

\* send() has returned and the receive loop goes on
WsPongEnd(c) ==
    /\ hpc[c] = "ws_pong"
    /\ hpc' = [hpc EXCEPT ![c] = "ws_loop"]
    /\ UNCHANGED <<regVars, sweepVars, bpc, xpc, closes, lockVars, notLocks>>

\* a text frame asks for metrics while another thread owns
\* connections_mutex: try_to_lock fails and send_message_to_client returns
WsReplyMiss(c) ==
    /\ hpc[c] = "ws_loop"
    /\ running
    /\ connections_mutex # NoOne
    /\ hpc' = [hpc EXCEPT ![c] = "ws_dropped"]
    /\ UNCHANGED <<regVars, sweepVars, bpc, xpc, closes, lockVars, notLocks>>

\* handle_websocket_connection: the next turn of the receive loop
WsResume(c) ==
    /\ hpc[c] = "ws_dropped"
    /\ hpc' = [hpc EXCEPT ![c] = "ws_loop"]
    /\ UNCHANGED <<regVars, sweepVars, bpc, xpc, closes, lockVars, notLocks>>

\* manage_connections: lock.try_lock_for(500 ms) succeeds
ManageLock ==
    /\ kpc = "k_loop"
    /\ ~shutdown_requested
    /\ connection_mutex = NoOne
    /\ connection_mutex' = SweeperThread
    /\ kpc' = "k_locked"
    /\ UNCHANGED <<regVars, hpc, expired_connections, bpc, xpc, closes,
                   connections_mutex, notLocks>>

\* manage_connections: collect the expired sockets, erase them from the
\* map, lock.unlock()
ManageCollect(exp) ==
    /\ kpc = "k_locked"
    /\ expired_connections' = exp
    /\ connection_timestamps' = connection_timestamps \ exp
    /\ idle' = idle \ exp
    /\ connection_mutex' = NoOne
    /\ kpc' = IF exp = {} THEN "k_loop" ELSE "k_close"
    /\ UNCHANGED <<sockets, connections, hpc, bpc, xpc, closes, connections_mutex,
                   notLocks>>

\* broadcast_message_safe: lock.try_lock_for(100 ms) succeeds
BroadcastLock ==
    /\ bpc = "b_loop"
    /\ running
    /\ ~shutdown_requested
    /\ connections_mutex = NoOne
    /\ connections_mutex' = BroadcastThread
    /\ bpc' = "b_send"
    /\ UNCHANGED <<regVars, hpc, sweepVars, xpc, closes, connection_mutex, notLocks>>

\* broadcast_message_safe: send_frame to every connection, erase the dead
\* ones, and the lock's scope ends
BroadcastSend(dead) ==
    /\ bpc = "b_send"
    /\ connections' = connections \ dead
    /\ connections_mutex' = NoOne
    /\ bpc' = "b_loop"
    /\ UNCHANGED <<sockets, connection_timestamps, idle, hpc, sweepVars, xpc, closes,
                   connection_mutex, notLocks>>

\* WebSocketHandler::stop after the joins: lock_guard lock(connections_mutex)
StopLock ==
    /\ xpc = "x_ws_join"
    /\ bpc \in {"b_none", "b_done"}
    /\ ppc \in {"p_none", "p_done"}
    /\ connections_mutex = NoOne
    /\ connections_mutex' = CleanupThread
    /\ xpc' = "x_ws_locked"
    /\ UNCHANGED <<regVars, hpc, sweepVars, bpc, closes, connection_mutex, notLocks>>

\* WebSocketHandler::stop: shutdown and close every socket of connections,
\* connections.clear(), and the lock's scope ends
StopCloseAll ==
    /\ xpc = "x_ws_locked"
    /\ closes' = [c \in Conns |-> IF c \in connections THEN closes[c] + 1 ELSE closes[c]]
    /\ connections' = {}
    /\ connections_mutex' = NoOne
    /\ xpc' = "x_pool"
    /\ UNCHANGED <<sockets, connection_timestamps, idle, hpc, sweepVars, bpc,
                   connection_mutex, notLocks>>

NextLocks ==
    \/ EnableKeepAlive
    \/ ServerStart
    \/ \E c \in Conns : LockedAccept(c)
    \/ \E c \in Conns : StatsRead(c)
    \/ \E c \in Conns : StatsReturn(c)
    \/ \E c \in Conns : UpdateLock(c)
    \/ \E c \in Conns : UpdateUnlock(c)
    \/ \E c \in Conns : LockedUpgrade(c)
    \/ \E c \in Conns : WsReplyLock(c)
    \/ \E c \in Conns, ok \in BOOLEAN : WsReplySend(c, ok)
    \/ \E c \in Conns : WsReplyMiss(c)
    \/ \E c \in Conns : WsResume(c)
    \/ \E c \in Conns : WsPongBegin(c)
    \/ \E c \in Conns : WsPongEnd(c)
    \/ \E c \in Conns : ConnIdle(c)
    \/ ManageLock
    \/ \E exp \in SUBSET idle : ManageCollect(exp \cap connection_timestamps)
    \/ \E c \in Conns : SweeperClose(c)
    \/ BroadcastLock
    \/ \E dead \in SUBSET connections : BroadcastSend(dead)
    \/ BroadcastIter
    \/ PingIter({})
    \/ MetricsIter
    \/ SignalHandler
    \/ CleanupRequest
    \/ CleanupStopMetrics
    \/ CleanupJoinMetrics
    \/ WsStop
    \/ StopLock
    \/ StopCloseAll

SpecLocks == Init /\ [][NextLocks]_vars

\* ------------------------------------------------------------------------
\* One cleartext connection (specification SpecHttp): the client writes
\* requests, the kernel delivers them to recv() split or coalesced, and the
\* handler task of handle_client_task_safe reads, parses and answers.
\* A request travels as its request line and the rest (headers and the
\* blank line), or as one piece holding both.
\* ------------------------------------------------------------------------

notHttp == <<coordVars, poolVars, stopVars, now, enqVars, qpc, histVars, harnessVars,
             serverVars, timeVars, lockVars, protoVars>>

\* the same without the WebSocket registry
notHttpWs == <<coordVars, poolVars, stopVars, now, enqVars, qpc, histVars, harnessVars,
               flagVars, sockets, connection_timestamps, idle, acceptVars, hpc,
               sweepVars, loopVars, xpc, closes, missed, timeVars, lockVars, protoVars>>

\* the socket of the connection
HttpConn == 1

Req(m, t, v, c, u, f) ==
    [method |-> m, target |-> t, version |-> v, connection |-> c, upgrade |-> u,
     key |-> "", form |-> f]

\* the requests a client writes; form tells how the text is malformed:
\* "short_line" a request line of fewer than three tokens, "no_colon" a
\* header line without a colon, "bad_escape" a query value "%zz"
GetRoot == Req("GET", "/", "HTTP/1.1", "", "", "ok")
GetRootClose == Req("GET", "/", "HTTP/1.1", "close", "", "ok")
GetRoot10 == Req("GET", "/", "HTTP/1.0", "", "", "ok")
GetMissing == Req("GET", "/missing", "HTTP/1.1", "", "", "ok")
PostRoot == Req("POST", "/", "HTTP/1.1", "", "", "ok")
PutRoot == Req("PUT", "/", "HTTP/1.1", "", "", "ok")
PostApi == Req("POST", "/api/users/1", "HTTP/1.1", "", "", "ok")
\* key is the value of the Sec-WebSocket-Key header, "" when it is absent
GetWsNoKey == Req("GET", "/ws", "HTTP/1.1", "Upgrade", "websocket", "ok")
GetWs == [GetWsNoKey EXCEPT !.key = "K"]
GetWebsocket == [GetWs EXCEPT !.target = "/websocket"]
GetRootWs == [GetWs EXCEPT !.target = "/"]
PostWs == [GetWs EXCEPT !.method = "POST"]
GetH2c == Req("GET", "/", "HTTP/1.1", "Upgrade", "h2c", "ok")
ShortLine == Req("INVALID", "", "", "", "", "short_line")
NoColon == Req("GET", "/", "HTTP/1.1", "", "", "no_colon")
BadEscape == Req("GET", "/", "HTTP/1.1", "", "", "bad_escape")
\* HTTP2_CONNECTION_PREFACE, "PRI * HTTP/2.0\r\n\r\nSM\r\n\r\n"
Preface == Req("PRI", "*", "HTTP/2.0", "", "", "ok")

Requests == {GetRoot, GetRootClose, GetRoot10, GetMissing, PostRoot, PutRoot, PostApi,
             GetWs, PostWs, GetH2c, ShortLine, NoColon, BadEscape, Preface,
             GetWsNoKey, GetWebsocket, GetRootWs}

\* the requests a client also writes in two pieces
SplitRequests == {GetRoot, ShortLine, Preface}

Pieces(r, split) ==
    IF split THEN <<[req |-> r, part |-> "line"], [req |-> r, part |-> "rest"]>>
             ELSE <<[req |-> r, part |-> "whole"]>>

\* headers_data.find("\r\n\r\n") != npos
HasTerminator(data) == \E i \in 1..Len(data) : data[i].part \in {"rest", "whole"}

\* HttpRequest::parse with parse_request_line, parse_query_parameters,
\* url_decode and parse_header_line: "true", "false", or "throws" when
\* std::stoi rejects the two characters after a '%'
parse(data) ==
    IF data = <<>> THEN "false"
    ELSE LET p == Head(data)
             r == p.req
         IN  IF p.part = "rest" THEN "false"
             ELSE IF r.form = "short_line" THEN "false"
             ELSE IF r.form = "bad_escape" THEN "throws"
             ELSE IF r.target # "/" /\ r.target # "/missing" /\ r.target # "/ws"
                     /\ r.target # "/websocket" /\ r.target # "/api/users/1" THEN "false"
             ELSE IF r.form = "no_colon" THEN "false"
             ELSE "true"

should_keep_alive_any_version(r) ==
    /\ keep_alive_enabled
    /\ r.connection # "close"

should_keep_alive(r) ==
    /\ keep_alive_enabled
    /\ r.version = "HTTP/1.1"
    /\ r.connection # "close"

is_api_path(path) == path = "/api/users/1"
is_websocket_path(path) == path = "/ws" \/ path = "/websocket"

is_websocket_request_no_key(r) == r.connection = "Upgrade" /\ r.upgrade = "websocket"

is_websocket_request(r) ==
    /\ r.connection = "Upgrade"
    /\ r.upgrade = "websocket"
    /\ r.key # ""
file_exists(path) == path = "/"

build_http_response(status, keep_alive) ==
    [version |-> "HTTP/1.1", status |-> status,
     connection |-> IF keep_alive /\ keep_alive_enabled THEN "keep-alive" ELSE "close"]

get_error_response(status) == build_http_response(status, FALSE)

\* handle_api_request for /api/users/{id}: handle_user_api; the keep_alive
\* of the caller is left as it is
handle_api_request(r, keep_alive) ==
    [response |-> IF r.method = "GET" THEN build_http_response(200, TRUE)
                                      ELSE build_http_response(405, FALSE),
     keep_alive |-> keep_alive]

handle_get_request(r, keep_alive) ==
    IF is_api_path(r.target) THEN handle_api_request(r, keep_alive)
    ELSE IF file_exists(r.target)
         THEN [response |-> build_http_response(200, keep_alive), keep_alive |-> keep_alive]
         ELSE [response |-> get_error_response(404), keep_alive |-> FALSE]

handle_post_request(r, keep_alive) ==
    IF is_api_path(r.target) THEN handle_api_request(r, keep_alive)
    ELSE [response |-> get_error_response(405), keep_alive |-> FALSE]

handle_request(r) ==
    LET keep_alive == should_keep_alive(r)
    IN  IF http2_enabled /\ r.method = "GET" /\ r.upgrade = "h2c"
           /\ r.connection = "Upgrade"
        THEN [response |-> [version |-> "HTTP/1.1", status |-> 101,
                            connection |-> "Upgrade"],
              keep_alive |-> FALSE]
        ELSE IF r.method = "GET" THEN handle_get_request(r, keep_alive)
        ELSE IF r.method = "POST" THEN handle_post_request(r, keep_alive)
        ELSE IF r.method = "OPTIONS"
             THEN [response |-> build_http_response(200, FALSE), keep_alive |-> keep_alive]
        ELSE IF r.method = "HEAD" THEN handle_get_request(r, keep_alive)
        ELSE [response |-> get_error_response(405), keep_alive |-> FALSE]

\* main.cpp: server.enable_http2(true) before server.start()
EnableHttp2 ==
    /\ apc = "a_init"
    /\ ~http2_enabled
    /\ http2_enabled' = TRUE
    /\ UNCHANGED <<wire, sent, rpc, headers_data, request, keep_connection, responses,
                   notHttp>>

\* the client, connected to the listening server, writes one request, in
\* one piece or in two
ClientSend(r, split) ==
    /\ apc = "a_loop"
    /\ Len(sent) < MaxRequests
    /\ rpc \notin {"r_ws", "r_closed"}
    /\ wire' = wire \o Pieces(r, split)
    /\ sent' = Append(sent, r)
    /\ UNCHANGED <<http2_enabled, rpc, headers_data, request, keep_connection, responses,
                   notHttp>>

\* handle_client_task_safe starts on a worker; tls_enabled is false
HttpTask ==
    /\ apc = "a_loop"
    /\ rpc = "r_none"
    /\ rpc' = IF shutdown_requested THEN "r_closed" ELSE "r_loop"
    /\ UNCHANGED <<http2_enabled, wire, sent, headers_data, request, keep_connection,
                   responses, notHttp>>

\* handle_http_connection: the top of the do loop; headers_data starts empty
HttpLoopTop ==
    /\ rpc = "r_loop"
    /\ rpc' = IF shutdown_requested THEN "r_closed" ELSE "r_read"
    /\ headers_data' = <<>>
    /\ UNCHANGED <<http2_enabled, wire, sent, request, keep_connection, responses,
                   notHttp>>

\* read_request_with_timeout: one turn whose recv returns the first n pieces
HttpRecv(n) ==
    /\ rpc = "r_read"
    /\ ~shutdown_requested
    /\ n \in 1..Len(wire)
    /\ headers_data' = headers_data \o SubSeq(wire, 1, n)
    /\ wire' = SubSeq(wire, n + 1, Len(wire))
    /\ rpc' = IF HasTerminator(headers_data') THEN "r_parse" ELSE "r_read"
    /\ UNCHANGED <<http2_enabled, sent, request, keep_connection, responses, notHttp>>

\* read_request_with_timeout returns false: the deadline passed, the flag
\* is set, or the peer closed
HttpReadFail ==
    /\ rpc = "r_read"
    /\ wire = <<>> \/ shutdown_requested
    /\ rpc' = "r_closed"
    /\ UNCHANGED <<http2_enabled, wire, sent, headers_data, request, keep_connection,
                   responses, notHttp>>

\* handle_http_connection from the parse to the sending of the response
HttpServe ==
    /\ rpc = "r_parse"
    /\ IF shutdown_requested
       THEN /\ rpc' = "r_closed"
            /\ UNCHANGED <<request, keep_connection, responses, connections>>
       ELSE LET r == Head(headers_data).req
            IN  CASE parse(headers_data) = "throws" ->
                       /\ rpc' = "r_closed"
                       /\ UNCHANGED <<request, keep_connection, responses, connections>>
                  [] parse(headers_data) = "false" ->
                       /\ responses' = Append(responses, get_error_response(400))
                       /\ rpc' = "r_closed"
                       /\ UNCHANGED <<request, keep_connection, connections>>
                  [] parse(headers_data) = "true" ->
                       /\ request' = r
                       /\ IF is_websocket_path(r.target) /\ is_websocket_request(r)
                          THEN IF g_shutdown_requested
                               THEN /\ rpc' = "r_closed"
                                    /\ UNCHANGED <<keep_connection, responses,
                                                   connections>>
                               ELSE /\ responses' =
                                         Append(responses,
                                                [version |-> "HTTP/1.1", status |-> 101,
                                                 connection |-> "Upgrade"])
                                    /\ connections' = connections \cup {HttpConn}
                                    /\ rpc' = "r_ws"
                                    /\ UNCHANGED keep_connection
                          ELSE /\ responses' =
                                     Append(responses, handle_request(r).response)
                               /\ keep_connection' = handle_request(r).keep_alive
                               /\ rpc' = "r_while"
                               /\ UNCHANGED connections
    /\ UNCHANGED <<http2_enabled, wire, sent, headers_data, notHttpWs>>

\* while (keep_connection && keep_alive_enabled && !is_shutdown_requested())
HttpWhile ==
    /\ rpc = "r_while"
    /\ rpc' = IF keep_connection /\ keep_alive_enabled /\ ~shutdown_requested
              THEN "r_loop" ELSE "r_closed"
    /\ UNCHANGED <<http2_enabled, wire, sent, headers_data, request, keep_connection,
                   responses, notHttp>>

\* handle_websocket_connection: remove_connection and return; the task ends
HttpWsEnd ==
    /\ rpc = "r_ws"
    /\ connections' = connections \ {HttpConn}
    /\ rpc' = "r_closed"
    /\ UNCHANGED <<http2_enabled, wire, sent, headers_data, request, keep_connection,
                   responses, notHttpWs>>

NextHttp ==
    \/ EnableKeepAlive
    \/ EnableHttp2
    \/ ServerStart
    \/ \E r \in Requests : ClientSend(r, FALSE)
    \/ \E r \in SplitRequests : ClientSend(r, TRUE)
    \/ HttpTask
    \/ HttpLoopTop
    \/ \E n \in 1..(2 * MaxRequests) : HttpRecv(n)
    \/ HttpReadFail
    \/ HttpServe
    \/ HttpWhile
    \/ HttpWsEnd
    \/ SignalHandler
    \/ CleanupRequest

SpecHttp == Init /\ [][NextHttp]_vars

\* ------------------------------------------------------------------------
\* The connection preface of cleartext HTTP/2 sessions (specification
\* SpecPreface): handle_http2_connection builds one HTTP2Handler per
\* connection and gives it every chunk it receives
\* ------------------------------------------------------------------------

notPreface == <<coordVars, poolVars, stopVars, now, enqVars, qpc, histVars, harnessVars,
                serverVars, timeVars, lockVars, httpVars, dataVars, streamVars,
                parseVars, alpnVars, frameVars, lateVars>>

\* a chunk is a sequence of pieces: "PRI" is the 24 bytes of
\* HTTP2_CONNECTION_PREFACE, "F" a run of any other bytes
Pieces24 == {"PRI", "F"}
Chunks == UNION {[1..n -> Pieces24] : n \in 1..MaxChunk}

RECURSIVE Flatten(_)
Flatten(chunks) ==
    IF chunks = <<>> THEN <<>> ELSE Head(chunks) \o Flatten(Tail(chunks))

\* HTTP2Handler::process_data on a cleartext connection, for the value the
\* flag has when it is called: the flag afterwards and the bytes handed to
\* nghttp2_session_mem_recv
process_data(flag, data) ==
    IF ~flag /\ data # <<>> /\ Head(data) = "PRI"
    THEN [preface_processed |-> TRUE, fed |-> Tail(data)]
    ELSE [preface_processed |-> flag, fed |-> data]

\* handle_http2_connection: process_data(initial_data) and then one call per
\* recv. handle_client_task takes this path only when the first bytes of the
\* connection are the preface. The enhanced handler keeps the flag in the
\* object; the other copy of the handler keeps it in a function-local static
H2Feed(s, chunk) ==
    /\ Len(fed_data[s]) < MaxFeeds
    /\ fed_data[s] = <<>> => Head(chunk) = "PRI"
    /\ fed_data' = [fed_data EXCEPT ![s] = Append(@, chunk)]
    /\ LET m == process_data(preface_processed[s], chunk)
           st == process_data(static_preface_processed, chunk)
       IN  /\ preface_processed' = [preface_processed EXCEPT ![s] = m.preface_processed]
           /\ codec_input' = [codec_input EXCEPT ![s] = @ \o m.fed]
           /\ static_preface_processed' = st.preface_processed
           /\ codec_input_static' = [codec_input_static EXCEPT ![s] = @ \o st.fed]
    /\ UNCHANGED notPreface

NextPreface == \E s \in Sessions, chunk \in Chunks : H2Feed(s, chunk)

SpecPreface == Init /\ [][NextPreface]_vars

\* ------------------------------------------------------------------------
\* The DATA source of one HTTP/2 response (specification SpecData)
\* ------------------------------------------------------------------------

notData == <<coordVars, poolVars, stopVars, now, enqVars, qpc, histVars, harnessVars,
             serverVars, timeVars, lockVars, httpVars, prefaceVars, streamVars,
             parseVars, alpnVars, frameVars, lateVars>>

BodyBytes == {"a", "b"}
Bodies == UNION {[1..n -> BodyBytes] : n \in 0..MaxBody}

Min(a, b) == IF a < b THEN a ELSE b

\* a read that copies from the start of the body whatever the cursor is
data_source_read_callback_restart(body, cursor, length) ==
    LET remaining == Len(body) - cursor
        copy_len == Min(length, remaining)
    IN  [buf |-> SubSeq(body, 1, copy_len),
         response_data_sent |-> cursor + copy_len,
         eof |-> cursor + copy_len >= Len(body)]

\* HTTP2Handler::data_source_read_callback: the bytes copied to buf, the
\* cursor afterwards and whether NGHTTP2_DATA_FLAG_EOF is set
data_source_read_callback(body, cursor, length) ==
    LET remaining == Len(body) - cursor
        copy_len == Min(length, remaining)
    IN  [buf |-> SubSeq(body, cursor + 1, cursor + copy_len),
         response_data_sent |-> cursor + copy_len,
         eof |-> cursor + copy_len >= Len(body)]

\* process_request fills response_body and send_response submits the
\* response with the stream as data source; the cursor is 0 from the
\* stream's constructor
H2SendResponse(body) ==
    /\ data_source = "none"
    /\ response_body' = body
    /\ data_source' = "open"
    /\ UNCHANGED <<response_data_sent, data_reads, notData>>

\* nghttp2 asks the source for up to length bytes; it asks again until a
\* read sets the EOF flag
H2DataRead(length) ==
    /\ data_source = "open"
    /\ LET r == data_source_read_callback(response_body, response_data_sent, length)
       IN  /\ response_data_sent' = r.response_data_sent
           /\ data_reads' = Append(data_reads, r)
           /\ data_source' = IF r.eof THEN "eof" ELSE "open"
    /\ UNCHANGED <<response_body, notData>>

NextData ==
    \/ \E body \in Bodies : H2SendResponse(body)
    \/ \E length \in 1..MaxRead : H2DataRead(length)

SpecData == Init /\ [][NextData]_vars

\* ------------------------------------------------------------------------
\* The streams of one HTTP/2 session (specification SpecH2): the callbacks
\* HTTP2Handler registers with nghttp2, in the order nghttp2 calls them
\* ------------------------------------------------------------------------

notH2 == <<coordVars, poolVars, stopVars, now, enqVars, qpc, histVars, harnessVars,
           serverVars, timeVars, lockVars, httpVars, prefaceVars, dataVars, parseVars,
           alpnVars, frameVars, lateVars>>

\* main: std::string doc_root = "./www", given to FileHandler and HTTP2Handler
document_root == "./www"

\* the request paths of the model and the regular files under the root
BasePaths == {"/index.html", "/style.css", "/demo.html", "/dashboard.html",
              "/data.json", "/missing.html"}
DiskFiles == {document_root \o p : p \in BasePaths \ {"/missing.html"}}

\* the ids a client can open streams with
ClientIds == {2 * i - 1 : i \in 1..MaxStreams}

\* FileHandler::resolve_path
resolve_path(requested_path) ==
    document_root \o (IF requested_path = "/" THEN "/index.html" ELSE requested_path)

\* FileHandler::file_exists: stat of the resolved path
FileHandler_file_exists(path) == resolve_path(path) \in DiskFiles

\* FileHandler::read_file: the bytes of the file at the resolved path
read_file(path) == "contents of " \o resolve_path(path)

\* FileHandler::get_mime_type: by the extension after the last dot
get_mime_type(path) ==
    IF \E p \in {"/index.html", "/demo.html", "/dashboard.html", "/missing.html"} :
           path \in {p, document_root \o p, document_root \o document_root \o p}
    THEN "text/html"
    ELSE IF path \in {"/style.css", document_root \o "/style.css",
                      document_root \o document_root \o "/style.css"}
    THEN "text/css"
    ELSE IF path \in {"/data.json", document_root \o "/data.json",
                      document_root \o document_root \o "/data.json"}
    THEN "application/json"
    ELSE "application/octet-stream"

\* HTTP2Stream::HTTP2Stream(id)
HTTP2Stream(id) ==
    [stream_id |-> id, method |-> "", path |-> "", body |-> "",
     headers_complete |-> FALSE, request_complete |-> FALSE,
     response_body |-> "", content_type |-> "", status_code |-> 200,
     push_enabled |-> TRUE]

\* HTTP2Handler::server_push_enabled
server_push_enabled == TRUE

\* HTTP2Handler::identify_push_resources
identify_push_resources(path) ==
    IF path = "/" \/ path = "/index.html" THEN <<"/style.css", "/demo.html">>
    ELSE IF path = "/dashboard.html" THEN <<"/style.css", "/data.json">>
    ELSE IF path = "/demo.html" THEN <<"/style.css">>
    ELSE <<>>

\* the handler and nghttp2's session as one value, for the calls below
Handler ==
    [streams |-> streams, next_promised |-> next_promised, promises |-> promises,
     answers |-> answers]

\* nghttp2_submit_push_promise: the promised id, or a negative error when
\* the parent is not an open stream the client started
nghttp2_submit_push_promise(h, parent_stream_id) ==
    IF parent_stream_id % 2 = 1 /\ parent_stream_id \in DOMAIN h.streams
    THEN h.next_promised
    ELSE 0 - 1

\* HTTP2Handler::send_response: nghttp2_submit_response with the stream's
\* status, headers and body
send_response(h, id) ==
    [h EXCEPT !.answers = Append(@, [stream_id |-> id,
                                     status_code |-> h.streams[id].status_code,
                                     content_type |-> h.streams[id].content_type,
                                     response_body |-> h.streams[id].response_body])]

RECURSIVE process_request(_, _)
RECURSIVE push_resource(_, _, _)
RECURSIVE PushEach(_, _, _)

\* the for loop of process_request over push_resources
PushEach(h, id, resources) ==
    IF resources = <<>> THEN h
    ELSE PushEach(push_resource(h, id, Head(resources)), id, Tail(resources))

\* HTTP2Handler::push_resource(parent_stream_id, path, "GET")
push_resource(h, parent_stream_id, path) ==
    IF ~server_push_enabled THEN h
    ELSE LET promised_stream_id == nghttp2_submit_push_promise(h, parent_stream_id)
         IN  IF promised_stream_id < 0 THEN h
             ELSE LET pushed_stream ==
                          [HTTP2Stream(promised_stream_id) EXCEPT
                               !.method = "GET", !.path = path,
                               !.headers_complete = TRUE, !.request_complete = TRUE]
                      h1 == [h EXCEPT
                               !.streams = MapPut(@, promised_stream_id, pushed_stream),
                               !.next_promised = @ + 2,
                               !.promises = Append(@, [parent |-> parent_stream_id,
                                                       path |-> path,
                                                       promised |-> promised_stream_id])]
                  IN  process_request(h1, promised_stream_id)

\* HTTP2Handler::process_request
process_request(h, id) ==
    LET stream == h.streams[id]
        Set(s) == [h EXCEPT !.streams = MapPut(@, id, s)]
    IN  IF ~stream.request_complete THEN h
        ELSE IF stream.method = "GET"
        THEN LET file_path == IF stream.path = "/"
                              THEN document_root \o "/index.html"
                              ELSE document_root \o stream.path
             IN  IF FileHandler_file_exists(file_path)
                 THEN LET s1 == [stream EXCEPT
                                    !.response_body = read_file(file_path),
                                    !.status_code = 200,
                                    !.content_type = get_mime_type(file_path)]
                          h1 == Set(s1)
                          h2 == IF s1.push_enabled /\ server_push_enabled
                                   /\ s1.content_type = "text/html"
                                THEN PushEach(h1, id, identify_push_resources(stream.path))
                                ELSE h1
                      IN  send_response(h2, id)
                 ELSE send_response(Set([stream EXCEPT
                          !.status_code = 404,
                          !.response_body = "404 Not Found",
                          !.content_type = "text/html"]), id)
        ELSE IF stream.method = "POST"
        THEN send_response(Set([stream EXCEPT
                 !.status_code = 200,
                 !.response_body = "POST request received. Body: " \o stream.body,
                 !.content_type = "text/plain"]), id)
        ELSE send_response(Set([stream EXCEPT
                 !.status_code = 405,
                 !.response_body = "Method Not Allowed",
                 !.content_type = "text/plain"]), id)

\* HTTP2Handler::on_header_callback for a request HEADERS frame: the stream
\* is looked up and the header is dropped when the table has no entry
on_header_callback(h, id, name, value) ==
    IF id \in DOMAIN h.streams
    THEN IF name = ":method"
         THEN [h EXCEPT !.streams[id].method = value]
         ELSE IF name = ":path"
         THEN [h EXCEPT !.streams[id].path = value]
         ELSE h
    ELSE h

\* HTTP2Handler::on_frame_recv_callback, NGHTTP2_HEADERS with HCAT_REQUEST:
\* a new HTTP2Stream takes the id's place in the table
on_frame_recv_headers(h, id, end_stream) ==
    LET stream == [HTTP2Stream(id) EXCEPT !.headers_complete = TRUE,
                                          !.request_complete = end_stream]
        h1 == [h EXCEPT !.streams = MapPut(@, id, stream)]
    IN  IF end_stream THEN process_request(h1, id) ELSE h1

\* HTTP2Handler::on_data_chunk_recv_callback
on_data_chunk_recv_callback(h, id, data) ==
    IF id \in DOMAIN h.streams
    THEN [h EXCEPT !.streams[id].body = @ \o data]
    ELSE h

\* HTTP2Handler::on_frame_recv_callback, NGHTTP2_DATA
on_frame_recv_data(h, id, end_stream) ==
    IF end_stream /\ id \in DOMAIN h.streams
    THEN process_request([h EXCEPT !.streams[id].request_complete = TRUE], id)
    ELSE h

\* a close callback that leaves the table as it is
on_stream_close_callback_no_erase(table, stream_id) == table

\* HTTP2Handler::on_stream_close_callback
on_stream_close_callback(table, stream_id) == MapErase(table, stream_id)

Store(h) ==
    /\ streams' = h.streams
    /\ next_promised' = h.next_promised
    /\ promises' = h.promises
    /\ answers' = h.answers

\* the requests a client sends
H2Requests ==
    {[method |-> "GET", path |-> "/"], [method |-> "GET", path |-> "/missing.html"],
     [method |-> "POST", path |-> "/"], [method |-> "PUT", path |-> "/"]}

\* nghttp2 receives the HEADERS frame that opens the client's next stream:
\* it calls on_header_callback for every header of the block and, after the
\* last of them, on_frame_recv_callback for the frame
H2Headers(id, method, path, end_stream) ==
    /\ id \in ClientIds
    /\ id \notin DOMAIN h2_requests
    /\ \A j \in ClientIds : j < id => j \in DOMAIN h2_requests
    /\ h2_requests' = MapPut(h2_requests, id,
                             [method |-> method, path |-> path, body |-> "",
                              ended |-> end_stream])
    /\ LET h1 == on_header_callback(Handler, id, ":method", method)
           h2 == on_header_callback(h1, id, ":path", path)
       IN  Store(on_frame_recv_headers(h2, id, end_stream))
    /\ UNCHANGED <<stream_priorities, closed_streams, notH2>>

\* nghttp2 receives a DATA frame of one byte on a stream the client has
\* not ended: on_data_chunk_recv_callback, then on_frame_recv_callback
H2Data(id, end_stream) ==
    /\ id \in DOMAIN h2_requests
    /\ id \notin closed_streams
    /\ ~h2_requests[id].ended
    /\ h2_requests[id].body = ""
    /\ h2_requests' = [h2_requests EXCEPT ![id].body = @ \o "x",
                                          ![id].ended = end_stream]
    /\ Store(on_frame_recv_data(on_data_chunk_recv_callback(Handler, id, "x"),
                                id, end_stream))
    /\ UNCHANGED <<stream_priorities, closed_streams, notH2>>

\* a PRIORITY frame for a stream id of the client, open or not:
\* handle_priority_frame
H2Priority(id) ==
    /\ id \notin stream_priorities
    /\ stream_priorities' = stream_priorities \cup {id}
    /\ UNCHANGED <<streams, next_promised, h2_requests, closed_streams, promises,
                   answers, notH2>>

\* nghttp2 closes a stream it has opened (both sides done, or a reset)
H2StreamClose(id) ==
    /\ id \in DOMAIN h2_requests \cup {promises[i].promised : i \in 1..Len(promises)}
    /\ id \notin closed_streams
    /\ closed_streams' = closed_streams \cup {id}
    /\ streams' = on_stream_close_callback(streams, id)
    /\ UNCHANGED <<stream_priorities, next_promised, h2_requests, promises, answers,
                   notH2>>

NextH2 ==
    \/ \E id \in ClientIds, r \in H2Requests, end_stream \in BOOLEAN :
           H2Headers(id, r.method, r.path, end_stream)
    \/ \E id \in ClientIds, end_stream \in BOOLEAN : H2Data(id, end_stream)
    \/ \E id \in ClientIds : H2Priority(id)
    \/ \E id \in 1..(2 * MaxStreams) : H2StreamClose(id)

SpecH2 == Init /\ [][NextH2]_vars

\* ------------------------------------------------------------------------
\* HttpRequest::parse on one raw request (specification SpecParse). Text is
\* a sequence of characters, a raw request the sequence of its lines as
\* std::getline cuts them at '\n'
\* ------------------------------------------------------------------------

notParse == <<coordVars, poolVars, stopVars, now, enqVars, qpc, histVars, harnessVars,
              serverVars, timeVars, lockVars, httpVars, prefaceVars, dataVars,
              streamVars, alpnVars, frameVars, lateVars>>

\* ::toupper and ::tolower on the letters of the model
toupper(c) == IF c = "g" THEN "G" ELSE IF c = "n" THEN "N" ELSE IF c = "a" THEN "A" ELSE c
tolower(c) == IF c = "G" THEN "g" ELSE IF c = "N" THEN "n" ELSE IF c = "A" THEN "a" ELSE c
IsHexDigit(c) == c \in {"0", "1", "4", "a", "A"}

\* std::string::find of a character: its first position, 0 for npos
IndexOf(str, c) ==
    IF \E i \in 1..Len(str) : str[i] = c
    THEN CHOOSE i \in 1..Len(str) : str[i] = c /\ \A j \in 1..(i - 1) : str[j] # c
    ELSE 0

\* repeated std::getline(stream, piece, c)
RECURSIVE SplitOn(_, _)
SplitOn(str, c) ==
    IF str = <<>> THEN <<>>
    ELSE LET k == IndexOf(str, c)
         IN  IF k = 0 THEN <<str>>
             ELSE <<SubSeq(str, 1, k - 1)>> \o SplitOn(SubSeq(str, k + 1, Len(str)), c)

\* repeated iss >> token: the pieces between runs of spaces
Tokens(line) == SelectSeq(SplitOn(line, " "), LAMBDA tok : tok # <<>>)

\* HttpRequest::trim: spaces off both ends
trim(str) ==
    IF \A i \in 1..Len(str) : str[i] = " " THEN <<>>
    ELSE LET first == CHOOSE i \in 1..Len(str) :
                          str[i] # " " /\ \A j \in 1..(i - 1) : str[j] = " "
             last == CHOOSE i \in 1..Len(str) :
                          str[i] # " " /\ \A j \in (i + 1)..Len(str) : str[j] = " "
         IN  SubSeq(str, first, last)

\* HttpRequest::to_lower
to_lower(str) == [i \in 1..Len(str) |-> tolower(str[i])]

\* the value of a hex digit, and the character with a given code (the
\* letters of the model by name, any other byte by its number)
HexValue(c) ==
    CASE c = "0" -> 0 [] c = "1" -> 1 [] c = "4" -> 4 [] c = "a" -> 10 [] c = "A" -> 10
CharOf(n) ==
    LET byte == n % 256
    IN  CASE byte = 65 -> "A" [] byte = 97 -> "a" [] byte = 49 -> "1" [] byte = 52 -> "4"
          [] byte = 48 -> "0" [] OTHER -> "byte " \o ToString(byte)

\* std::stoi(hex, nullptr, 16) on the two characters after a '%': an
\* optional sign, then the longest run of hex digits; std::invalid_argument
\* when there is none
stoi16(hex) ==
    LET signed == hex[1] \in {"+", "-"}
        sign == IF hex[1] = "-" THEN -1 ELSE 1
    IN  IF signed
        THEN IF IsHexDigit(hex[2])
             THEN [throws |-> FALSE, value |-> sign * HexValue(hex[2])]
             ELSE [throws |-> TRUE, value |-> 0]
        ELSE IF ~IsHexDigit(hex[1]) THEN [throws |-> TRUE, value |-> 0]
        ELSE IF IsHexDigit(hex[2])
             THEN [throws |-> FALSE, value |-> 16 * HexValue(hex[1]) + HexValue(hex[2])]
             ELSE [throws |-> FALSE, value |-> HexValue(hex[1])]

\* HttpRequest::url_decode from position k on
RECURSIVE url_decode_from(_, _)
url_decode_from(str, k) ==
    IF k > Len(str) THEN [throws |-> FALSE, decoded |-> <<>>]
    ELSE IF str[k] = "%" /\ k + 2 <= Len(str)
    THEN LET n == stoi16(SubSeq(str, k + 1, k + 2))
         IN  IF n.throws
             THEN [throws |-> TRUE, decoded |-> <<>>]
             ELSE LET rest == url_decode_from(str, k + 3)
                  IN  [rest EXCEPT !.decoded = <<CharOf(n.value)>> \o @]
    ELSE LET rest == url_decode_from(str, k + 1)
         IN  [rest EXCEPT !.decoded = <<IF str[k] = "+" THEN " " ELSE str[k]>> \o @]

url_decode(str) == url_decode_from(str, 1)

\* HttpRequest::parse_query_parameters: the path, and whether decoding a
\* key or a value of the query threw
parse_query_parameters(path_with_query) ==
    LET query_pos == IndexOf(path_with_query, "?")
    IN  IF query_pos = 0
        THEN [throws |-> FALSE, path |-> path_with_query]
        ELSE LET pairs == SplitOn(SubSeq(path_with_query, query_pos + 1,
                                         Len(path_with_query)), "&")
                 Throws(pair) ==
                     LET eq_pos == IndexOf(pair, "=")
                     IN  /\ eq_pos # 0
                         /\ \/ url_decode(SubSeq(pair, 1, eq_pos - 1)).throws
                            \/ url_decode(SubSeq(pair, eq_pos + 1, Len(pair))).throws
             IN  [throws |-> \E i \in 1..Len(pairs) : Throws(pairs[i]),
                  path |-> SubSeq(path_with_query, 1, query_pos - 1)]

NoRequest == [ret |-> "none", method |-> <<>>, path |-> <<>>, version |-> <<>>,
              headers |-> EmptyMap]

\* HttpRequest::parse_request_line
parse_request_line(req, line) ==
    LET toks == Tokens(line)
    IN  IF Len(toks) < 3 THEN [req EXCEPT !.ret = "false"]
        ELSE LET q == parse_query_parameters(toks[2])
                 r == [req EXCEPT !.method = [i \in 1..Len(toks[1]) |-> toupper(toks[1][i])],
                                  !.path = q.path, !.version = toks[3]]
             IN  IF q.throws THEN [r EXCEPT !.ret = "throws"]
                 ELSE IF r.method = <<>> \/ r.path = <<>> \/ r.version = <<>>
                 THEN [r EXCEPT !.ret = "false"]
                 ELSE IF r.path[1] # "/" THEN [r EXCEPT !.ret = "false"]
                 ELSE [r EXCEPT !.ret = "true"]

\* HttpRequest::parse_header_line
parse_header_line(req, line) ==
    LET colon_pos == IndexOf(line, ":")
    IN  IF colon_pos = 0 THEN [req EXCEPT !.ret = "false"]
        ELSE IF colon_pos = 1 THEN [req EXCEPT !.ret = "false"]
        ELSE LET key == trim(SubSeq(line, 1, colon_pos - 1))
                 value == trim(SubSeq(line, colon_pos + 1, Len(line)))
             IN  IF key = <<>> THEN [req EXCEPT !.ret = "false"]
                 ELSE [req EXCEPT !.ret = "true",
                                  !.headers = MapPut(@, to_lower(key), value)]

\* the carriage return at the end of a line is dropped
StripCR(line) ==
    IF line # <<>> /\ line[Len(line)] = "\r" THEN SubSeq(line, 1, Len(line) - 1) ELSE line

\* the while loop of parse over the lines after the request line
RECURSIVE ParseHeaders(_, _)
ParseHeaders(req, lines) ==
    IF lines = <<>> THEN req
    ELSE LET line == StripCR(Head(lines))
         IN  IF line = <<>> THEN req
             ELSE LET r == parse_header_line(req, line)
                  IN  IF r.ret = "true" THEN ParseHeaders(r, Tail(lines)) ELSE r

\* HttpRequest::parse: "true", "false" or "throws", and the fields
HttpRequest_parse(raw) ==
    IF raw = <<>> THEN [NoRequest EXCEPT !.ret = "false"]
    ELSE LET r1 == parse_request_line(NoRequest, StripCR(Head(raw)))
         IN  IF r1.ret # "true" THEN r1
             ELSE LET r2 == ParseHeaders(r1, Tail(raw))
                  IN  IF r2.ret # "true" THEN r2
                      ELSE [r2 EXCEPT !.ret =
                                IF r2.method # <<>> /\ r2.path # <<>> /\ r2.version # <<>>
                                THEN "true" ELSE "false"]

\* the texts of the model
WireMethods == {<<"g">>, <<"G">>}
WireTargets ==
    {<<"/">>, <<"/", "a">>, <<"a">>, <<"?", "a", "=", "1">>,
     <<"/", "?", "a", "=", "%", "4", "1">>, <<"/", "?", "a", "=", "%", "z", "z">>,
     <<"/", "?", "a", "=", "%", "4">>, <<"/", "?", "%", "z", "z">>,
     <<"/", "?", "a", "=", "1", "&", "%", "z", "z", "=", "1">>}
WireVersion == <<"H">>
RequestLines ==
    {m \o <<" ">> \o tg \o <<" ">> \o WireVersion : m \in WireMethods, tg \in WireTargets}
    \cup {<<>>, <<"G">>, <<"G", " ", "/">>, <<"G", " ", " ", "/", " ", "H">>,
          <<"G", " ", "/", " ", "H", " ", "H">>}
HeaderLines ==
    {<<"N", ":", "v">>, <<"n", ":", " ", "v">>, <<":", "v">>, <<" ", ":", "v">>,
     <<"N", "v">>, <<"N", " ", ":", "v">>, <<"N", ":">>, <<>>}
WireLines(lines) == [i \in 1..Len(lines) |-> lines[i] \o <<"\r">>]
RawRequests ==
    {<<>>} \cup
    {WireLines(<<rl>> \o hs) :
        rl \in RequestLines, hs \in UNION {[1..n -> HeaderLines] : n \in 0..MaxLines}}

\* one call of parse on a new HttpRequest
HttpRequestParse(raw) ==
    /\ parsed.ret = "none"
    /\ raw_request' = raw
    /\ parsed' = HttpRequest_parse(raw)
    /\ UNCHANGED notParse

NextParse == \E raw \in RawRequests : HttpRequestParse(raw)

SpecParse == Init /\ [][NextParse]_vars

\* ------------------------------------------------------------------------
\* ALPN selection in the TLS handshake (specification SpecAlpn)
\* ------------------------------------------------------------------------

notAlpn == <<coordVars, poolVars, stopVars, now, enqVars, qpc, histVars, harnessVars,
             serverVars, timeVars, lockVars, httpVars, prefaceVars, dataVars,
             streamVars, parseVars, frameVars, lateVars>>

\* protocol names a client can offer
ProtoH2 == <<"h", "2">>
ProtoHttp11 == <<"h", "t", "t", "p", "/", "1", ".", "1">>
ProtoNames == {ProtoH2, ProtoHttp11, <<"h", "3">>, <<"h", "2", "c">>,
               <<"h", "t", "t", "p", "/", "1", ".", "0">>}

\* the lists of distinct names, in any order
Offers ==
    {o \in UNION {[1..n -> ProtoNames] : n \in 1..MaxOffer} :
        \A i, j \in 1..Len(o) : i # j => o[i] # o[j]}

\* the ALPN extension's bytes: each name after a byte holding its length
RECURSIVE AlpnWire(_)
AlpnWire(names) ==
    IF names = <<>> THEN <<>>
    ELSE <<Len(Head(names))>> \o Head(names) \o AlpnWire(Tail(names))

\* one of the two for loops of alpn_select_callback, from index i (counted
\* from 1 here): the position of the protocol's first byte, 0 when the loop
\* ends without a match. memcmp compares the length byte and the name
RECURSIVE AlpnScan(_, _, _)
AlpnScan(in, i, proto) ==
    IF i > Len(in) THEN 0
    ELSE LET proto_len == in[i]
         IN  IF i + proto_len > Len(in) THEN 0
             ELSE IF proto_len = proto[1] /\ i + Len(proto) - 1 <= Len(in)
                     /\ SubSeq(in, i, i + Len(proto) - 1) = proto
             THEN i + 1
             ELSE AlpnScan(in, i + 1 + proto_len, proto)

AlpnSelected(in, at) ==
    [ret |-> "SSL_TLSEXT_ERR_OK", out |-> SubSeq(in, at, at + in[at - 1] - 1)]

\* a callback that looks for h2 whatever the switch says
alpn_select_callback_always_h2(enabled, in) ==
    LET h2 == <<2>> \o ProtoH2
        http11 == <<8>> \o ProtoHttp11
        at2 == AlpnScan(in, 1, h2)
        at11 == AlpnScan(in, 1, http11)
    IN  IF at2 # 0 THEN AlpnSelected(in, at2)
        ELSE IF at11 # 0 THEN AlpnSelected(in, at11)
        ELSE [ret |-> "SSL_TLSEXT_ERR_ALERT_FATAL", out |-> <<>>]

\* WebServer::alpn_select_callback; enabled is server->is_http2_enabled()
alpn_select_callback(enabled, in) ==
    LET h2 == <<2>> \o ProtoH2
        http11 == <<8>> \o ProtoHttp11
        at2 == IF enabled THEN AlpnScan(in, 1, h2) ELSE 0
        at11 == AlpnScan(in, 1, http11)
    IN  IF at2 # 0 THEN AlpnSelected(in, at2)
        ELSE IF at11 # 0 THEN AlpnSelected(in, at11)
        ELSE [ret |-> "SSL_TLSEXT_ERR_ALERT_FATAL", out |-> <<>>]

\* a TLS client of the listening server offers a list of protocols and
\* OpenSSL calls the callback with the list's bytes
AlpnHandshake(names) ==
    /\ apc = "a_loop"
    /\ alpn_offered' = names
    /\ alpn_result' = alpn_select_callback(http2_enabled, AlpnWire(names))
    /\ UNCHANGED notAlpn

NextAlpn ==
    \/ EnableHttp2
    \/ ServerStart
    \/ \E names \in Offers : AlpnHandshake(names)

SpecAlpn == Init /\ [][NextAlpn]_vars

\* ------------------------------------------------------------------------
\* WebSocket frames (specification SpecFrame): bytes are 0..255
\* ------------------------------------------------------------------------

notFrame == <<coordVars, poolVars, stopVars, now, enqVars, qpc, histVars, harnessVars,
              serverVars, timeVars, lockVars, httpVars, prefaceVars, dataVars,
              streamVars, parseVars, alpnVars, lateVars>>

\* bit k of a byte, and ^ on two bytes
Bit(b, k) == (b \div (2 ^ k)) % 2
Xor(a, b) ==
    ((Bit(a, 0) + Bit(b, 0)) % 2) + 2 * ((Bit(a, 1) + Bit(b, 1)) % 2)
    + 4 * ((Bit(a, 2) + Bit(b, 2)) % 2) + 8 * ((Bit(a, 3) + Bit(b, 3)) % 2)
    + 16 * ((Bit(a, 4) + Bit(b, 4)) % 2) + 32 * ((Bit(a, 5) + Bit(b, 5)) % 2)
    + 64 * ((Bit(a, 6) + Bit(b, 6)) % 2) + 128 * ((Bit(a, 7) + Bit(b, 7)) % 2)

\* (payload_len >> (8 * k)) & 0xFF; the lengths of the model are below 2^31,
\* so the four high bytes of the 64-bit form are 0
ShiftByte(payload_len, k) == IF k >= 4 THEN 0 ELSE (payload_len \div (256 ^ k)) % 256

\* a create_frame that still uses the 7-bit form for a length of 126
create_frame_off_by_one(opcode, payload) ==
    LET payload_len == Len(payload)
        first == IF opcode >= 128 THEN opcode ELSE 128 + opcode
        len_bytes ==
            IF payload_len <= 126 THEN <<payload_len>>
            ELSE IF payload_len < 65536
            THEN <<126, (payload_len \div 256) % 256, payload_len % 256>>
            ELSE <<127>> \o [i \in 1..8 |-> ShiftByte(payload_len, 8 - i)]
    IN  <<first>> \o len_bytes \o payload

\* WebSocketHandler::create_frame
create_frame(opcode, payload) ==
    LET payload_len == Len(payload)
        first == IF opcode >= 128 THEN opcode ELSE 128 + opcode
        len_bytes ==
            IF payload_len < 126 THEN <<payload_len>>
            ELSE IF payload_len < 65536
            THEN <<126, (payload_len \div 256) % 256, payload_len % 256>>
            ELSE <<127>> \o [i \in 1..8 |-> ShiftByte(payload_len, 8 - i)]
    IN  <<first>> \o len_bytes \o payload

\* WebSocketHandler::parse_frame. A WebSocketFrame has no initialisers: the
\* fields an early return has not assigned are left out of the record, and
\* complete says whether the payload was copied. A 64-bit length of 2^31 or
\* more is longer than any buffer of the model: the frame is not complete
parse_frame(data) ==
    IF Len(data) < 2 THEN [complete |-> FALSE, fin |-> FALSE, opcode |-> 0]
    ELSE LET fin == data[1] >= 128
             opcode == data[1] % 16
             masked == data[2] >= 128
             len7 == data[2] % 128
             head == [complete |-> FALSE, fin |-> fin, opcode |-> opcode, masked |-> masked]
         IN  IF len7 = 126 /\ Len(data) < 4 THEN head
             ELSE IF len7 = 127 /\ Len(data) < 10 THEN head
             ELSE IF len7 = 127 /\ (data[3] + data[4] + data[5] + data[6] > 0 \/ data[7] >= 128)
             THEN head @@ [payload_length |-> "2^31 or more"]
             ELSE LET payload_len ==
                          IF len7 = 126 THEN data[3] * 256 + data[4]
                          ELSE IF len7 = 127
                          THEN data[7] * (256 ^ 3) + data[8] * (256 ^ 2)
                               + data[9] * 256 + data[10]
                          ELSE len7
                      start == IF len7 = 126 THEN 4 ELSE IF len7 = 127 THEN 10 ELSE 2
                      sized == [head EXCEPT !.complete = FALSE] @@
                               [payload_length |-> payload_len]
                  IN  IF masked /\ Len(data) < start + 4 THEN sized
                      ELSE LET mask == IF masked THEN SubSeq(data, start + 1, start + 4)
                                       ELSE <<>>
                               payload_start == IF masked THEN start + 4 ELSE start
                           IN  IF Len(data) < payload_start + payload_len
                               THEN sized @@ [mask |-> mask]
                               ELSE [complete |-> TRUE, fin |-> fin, opcode |-> opcode,
                                     masked |-> masked, payload_length |-> payload_len,
                                     mask |-> mask,
                                     payload |->
                                         [i \in 1..payload_len |->
                                             IF masked
                                             THEN Xor(data[payload_start + i],
                                                      mask[((i - 1) % 4) + 1])
                                             ELSE data[payload_start + i]]]

\* the inputs: the 4-bit opcodes, payloads of the lengths around the two
\* thresholds of the length field, masking keys
WsOpcodes == 0..15
FrameLengths == {0, 1, 125, 126, 127, 65535, 65536}
Payload(n, seed) == [i \in 1..n |-> (seed + 7 * i) % 256]
MaskKeys == {<<0, 0, 0, 0>>, <<18, 52, 86, 120>>, <<255, 1, 128, 7>>}

\* the server builds a frame (send_frame) and the frame is parsed; a
\* behaviour follows one frame
WsServerFrame(opcode, payload) ==
    /\ ws_input.by = "none"
    /\ ws_input' = [by |-> "server", opcode |-> opcode, payload |-> payload, key |-> <<>>]
    /\ ws_frame' = create_frame(opcode, payload)
    /\ ws_parsed' = parse_frame(create_frame(opcode, payload))
    /\ UNCHANGED notFrame

\* a client sends a masked final frame with a 7-bit length and
\* handle_websocket_connection parses it
WsClientFrame(opcode, key, payload) ==
    LET bytes == <<128 + opcode, 128 + Len(payload)>> \o key \o
                 [i \in 1..Len(payload) |-> Xor(payload[i], key[((i - 1) % 4) + 1])]
    IN  /\ ws_input.by = "none"
        /\ ws_input' = [by |-> "client", opcode |-> opcode, payload |-> payload,
                        key |-> key]
        /\ ws_frame' = bytes
        /\ ws_parsed' = parse_frame(bytes)
        /\ UNCHANGED notFrame

NextFrame ==
    \/ \E opcode \in WsOpcodes, n \in FrameLengths, seed \in {0, 200} :
           WsServerFrame(opcode, Payload(n, seed))
    \/ \E opcode \in {1, 2, 8, 9, 10}, key \in MaskKeys, n \in 0..MaxPayload :
           WsClientFrame(opcode, key, Payload(n, 250))

SpecFrame == Init /\ [][NextFrame]_vars

\* ------------------------------------------------------------------------
\* A request with a body, from the socket to the handler (specification
\* SpecBody)
\* ------------------------------------------------------------------------

notBody == <<baseVars, decodeVars, fdVars, occupyVars>>

\* the bytes of a POST whose Content-Length is n: the request line and the
\* header name, the header's value, the blank line, and n body bytes
Terminator == "\\r\\n\\r\\n"
BodyRequestBytes(n) ==
    <<"POST /api/users HTTP/1.1\\r\\nContent-Length: ", ToString(n), Terminator>>
        \o [i \in 1..n |-> "x"]

\* a byte string cut into segments after the positions in cuts
RECURSIVE Segments(_, _, _)
Segments(bytes, cuts, from) ==
    IF from > Len(bytes) THEN <<>>
    ELSE LET later == {c \in cuts : c >= from /\ c < Len(bytes)}
             to == IF later = {} THEN Len(bytes)
                   ELSE CHOOSE c \in later : \A d \in later : c <= d
         IN  <<SubSeq(bytes, from, to)>> \o Segments(bytes, cuts, to + 1)

\* headers_data.find("\r\n\r\n"), 0 for npos
find_terminator(data) ==
    IF \E i \in 1..Len(data) : data[i] = Terminator
    THEN CHOOSE i \in 1..Len(data) :
             data[i] = Terminator /\ \A j \in 1..(i - 1) : data[j] # Terminator
    ELSE 0

\* HttpRequest::get_content_length: std::stoul of the header's value
get_content_length(data) ==
    LET at == find_terminator(data)
    IN  IF at >= 3 /\ \E n \in 0..9 : ToString(n) = data[at - 1]
        THEN CHOOSE n \in 0..9 : ToString(n) = data[at - 1]
        ELSE 0

\* HttpRequest::parse: the body is what follows the blank line in the text
\* it was given
parse_body(data) == SubSeq(data, find_terminator(data) + 1, Len(data))

\* a client starts a request with n body bytes, to be written in segments
BodyClientStart(n, cuts) ==
    /\ body_request.at = "none"
    /\ body_pending = <<>>
    /\ body_pending' = Segments(BodyRequestBytes(n), cuts, 1)
    /\ body_request' = [body_request EXCEPT !.at = "reading"]
    /\ UNCHANGED <<body_wire, body_data, notBody>>

\* the client's next segment arrives at the server's socket
BodyClientWrite ==
    /\ body_pending # <<>>
    /\ body_wire' = body_wire \o Head(body_pending)
    /\ body_pending' = Tail(body_pending)
    /\ UNCHANGED <<body_data, body_request, notBody>>

\* read_request_with_timeout, one iteration: no blank line yet, select
\* reports the socket readable, recv appends what has arrived
BodyRecv ==
    /\ body_request.at = "reading"
    /\ find_terminator(body_data) = 0
    /\ body_wire # <<>>
    /\ body_data' = body_data \o body_wire
    /\ body_wire' = <<>>
    /\ UNCHANGED <<body_pending, body_request, notBody>>

\* read_request_with_timeout: the deadline passes before the blank line
\* arrived; handle_http_connection leaves the loop
BodyReadFail ==
    /\ body_request.at = "reading"
    /\ find_terminator(body_data) = 0
    /\ body_wire = <<>>
    /\ body_request' = [body_request EXCEPT !.at = "closed"]
    /\ UNCHANGED <<body_pending, body_wire, body_data, notBody>>

\* read_request_with_timeout returns true once the blank line is in
\* headers_data; handle_http_connection parses headers_data and hands the
\* request to handle_request
BodyServe ==
    /\ body_request.at = "reading"
    /\ find_terminator(body_data) # 0
    /\ body_request' = [at |-> "handed",
                        content_length |-> get_content_length(body_data),
                        body |-> parse_body(body_data)]
    /\ UNCHANGED <<body_pending, body_wire, body_data, notBody>>

NextBody ==
    \/ \E n \in 0..MaxContentLength, cuts \in SUBSET (1..(MaxContentLength + 2)) :
           BodyClientStart(n, cuts)
    \/ BodyClientWrite
    \/ BodyRecv
    \/ BodyReadFail
    \/ BodyServe

SpecBody == Init /\ [][NextBody]_vars

\* ------------------------------------------------------------------------
\* URL decoding of a query key or value (specification SpecDecode)
\* ------------------------------------------------------------------------

notDecode == <<baseVars, bodyVars, fdVars, occupyVars>>

\* the characters of the strings decoded
DecodeChars == {"%", "+", "4", "1", "z"}
DecodeStrings == UNION {[1..n -> DecodeChars] : n \in 0..MaxDecode}

\* parse_query_parameters decodes a key or a value
UrlDecode(str) ==
    LET r == url_decode(str)
    IN  /\ decode_result.ret = "none"
        /\ decode_input' = str
        /\ decode_result' = [ret |-> IF r.throws THEN "throws" ELSE "returned",
                             decoded |-> r.decoded]
        /\ UNCHANGED notDecode

NextDecode == \E str \in DecodeStrings : UrlDecode(str)

SpecDecode == Init /\ [][NextDecode]_vars

\* ------------------------------------------------------------------------
\* Descriptor numbers across accept, sweeper and task cleanup (specification
\* SpecFd): keep-alive on, no shutdown.  A connection is the thing a client
\* opened; a descriptor is the int the kernel names it by while it is open.
\* ------------------------------------------------------------------------

notFd == <<baseVars, bodyVars, decodeVars, occupyVars>>

Accepted == 1..MaxAccepts
Fds == 1..MaxAccepts
Sweeper == MaxAccepts + 1

\* close(fd): the connection the number stands for at that moment is
\* closed by who; EBADF when the number is free
close(owner, closed_by, fd, who) ==
    [owner |-> [owner EXCEPT ![fd] = 0],
     closed_by |-> IF owner[fd] # 0 THEN [closed_by EXCEPT ![owner[fd]] = who]
                   ELSE closed_by]

\* accept() returns the lowest free descriptor number for the next
\* connection; register_socket, add_connection_safe, and the task
\* [this, client_socket]() { handle_client_task_safe(client_socket); }
\* is enqueued and started
FdAccept(c) ==
    /\ task_at[c] = "none"
    /\ \A d \in Accepted : d < c => task_at[d] # "none"
    /\ \E fd \in Fds : fd_owner[fd] = 0
    /\ LET fd == CHOOSE f \in Fds : fd_owner[f] = 0 /\ \A g \in Fds : fd_owner[g] = 0 => f <= g
       IN  /\ fd_owner' = [fd_owner EXCEPT ![fd] = c]
           /\ fd_registered' = fd_registered \cup {fd}
           /\ fd_tracked' = fd_tracked \cup {fd}
           /\ task_socket' = [task_socket EXCEPT ![c] = fd]
    /\ task_at' = [task_at EXCEPT ![c] = "h_loop"]
    /\ UNCHANGED <<fd_closed_by, fd_io_by, notFd>>

\* handle_http_connection: recv or send on client_socket
FdHandlerIo(c) ==
    /\ task_at[c] = "h_loop"
    /\ fd_owner[task_socket[c]] # 0
    /\ fd_io_by' = [fd_io_by EXCEPT ![fd_owner[task_socket[c]]] = @ \cup {c}]
    /\ UNCHANGED <<fd_owner, fd_tracked, fd_registered, task_socket, task_at, fd_closed_by,
                   notFd>>

\* manage_connections: an expired key is erased from connection_timestamps,
\* then shutdown(socket), close(socket), unregister_socket(socket)
FdSweep(fd) ==
    /\ fd \in fd_tracked
    /\ LET r == close(fd_owner, fd_closed_by, fd, Sweeper)
       IN  /\ fd_owner' = r.owner
           /\ fd_closed_by' = r.closed_by
    /\ fd_tracked' = fd_tracked \ {fd}
    /\ fd_registered' = fd_registered \ {fd}
    /\ UNCHANGED <<task_socket, task_at, fd_io_by, notFd>>

\* the task ends and ~SocketGuard runs on the int it holds:
\* remove_connection_safe(socket), unregister_socket(socket), close(socket)
FdSocketGuard(c) ==
    /\ task_at[c] = "h_loop"
    /\ LET r == close(fd_owner, fd_closed_by, task_socket[c], c)
       IN  /\ fd_owner' = r.owner
           /\ fd_closed_by' = r.closed_by
    /\ fd_tracked' = fd_tracked \ {task_socket[c]}
    /\ fd_registered' = fd_registered \ {task_socket[c]}
    /\ task_at' = [task_at EXCEPT ![c] = "done"]
    /\ UNCHANGED <<task_socket, fd_io_by, notFd>>

NextFd ==
    \/ \E c \in Accepted : FdAccept(c)
    \/ \E c \in Accepted : FdHandlerIo(c)
    \/ \E fd \in Fds : FdSweep(fd)
    \/ \E c \in Accepted : FdSocketGuard(c)

SpecFd == Init /\ [][NextFd]_vars

\* ------------------------------------------------------------------------
\* Handler tasks occupying the pool's workers (specification SpecOccupy, and
\* SpecOccupyFair with the fairness of the threads): no shutdown
\* ------------------------------------------------------------------------

notOccupy == <<baseVars, bodyVars, decodeVars, fdVars>>

\* the worker that executes the task of connection c
WorkerOf(c) == CHOOSE w \in Workers : worker_conn[w] = c

\* the accept loop accepts a connection and enqueues
\* [this, client_socket]() { handle_client_task_safe(client_socket); }
OccupyAccept(c) ==
    /\ conn_at[c] = "none"
    /\ \A d \in Accepted : d < c => conn_at[d] # "none"
    /\ pending_tasks' = Append(pending_tasks, c)
    /\ conn_at' = [conn_at EXCEPT ![c] = "queued"]
    /\ UNCHANGED <<worker_conn, conn_served, notOccupy>>

\* ThreadPool::worker: an idle worker pops the front task and calls it
OccupyTake(w) ==
    /\ worker_conn[w] = 0
    /\ pending_tasks # <<>>
    /\ worker_conn' = [worker_conn EXCEPT ![w] = Head(pending_tasks)]
    /\ conn_at' = [conn_at EXCEPT ![Head(pending_tasks)] = "h_loop"]
    /\ pending_tasks' = Tail(pending_tasks)
    /\ UNCHANGED <<conn_served, notOccupy>>

\* handle_http_connection: a request is answered and the connection kept
OccupyRequest(c) ==
    /\ conn_at[c] = "h_loop"
    /\ conn_served[c] < MaxRequests
    /\ conn_served' = [conn_served EXCEPT ![c] = @ + 1]
    /\ UNCHANGED <<pending_tasks, worker_conn, conn_at, notOccupy>>

\* handle_http_connection leaves its loop (the 5 s read timeout on an idle
\* connection, Connection: close, an error): task() returns to the worker
OccupyReturn(c) ==
    /\ conn_at[c] = "h_loop"
    /\ conn_at' = [conn_at EXCEPT ![c] = "done"]
    /\ worker_conn' = [worker_conn EXCEPT ![WorkerOf(c)] = 0]
    /\ UNCHANGED <<pending_tasks, conn_served, notOccupy>>

\* handle_websocket_upgrade: handle_websocket_connection runs its receive
\* loop inside the task, on the worker's thread
OccupyUpgrade(c) ==
    /\ conn_at[c] = "h_loop"
    /\ conn_at' = [conn_at EXCEPT ![c] = "ws_loop"]
    /\ UNCHANGED <<pending_tasks, worker_conn, conn_served, notOccupy>>

\* the client closes its WebSocket: the receive loop ends and task() returns
OccupyWsExit(c) ==
    /\ conn_at[c] = "ws_loop"
    /\ conn_at' = [conn_at EXCEPT ![c] = "done"]
    /\ worker_conn' = [worker_conn EXCEPT ![WorkerOf(c)] = 0]
    /\ UNCHANGED <<pending_tasks, conn_served, notOccupy>>

NextOccupy ==
    \/ \E c \in Accepted : OccupyAccept(c)
    \/ \E w \in Workers : OccupyTake(w)
    \/ \E c \in Accepted : OccupyRequest(c)
    \/ \E c \in Accepted : OccupyReturn(c)
    \/ \E c \in Accepted : OccupyUpgrade(c)
    \/ \E c \in Accepted : OccupyWsExit(c)

SpecOccupy == Init /\ [][NextOccupy]_vars

\* the threads of the server run: an idle worker's wait_for returns within
\* 100 ms, and a handler that is not in a WebSocket loop comes to the end of
\* its connection; when a client closes its WebSocket is the client's choice
SpecOccupyFair ==
    /\ SpecOccupy
    /\ \A w \in Workers : WF_vars(OccupyTake(w))
    /\ \A c \in Accepted : SF_vars(OccupyReturn(c) \/ OccupyUpgrade(c))

\* ------------------------------------------------------------------------
\* Properties
\* ------------------------------------------------------------------------

\* C40: every response on a promised stream follows that stream's
\* PUSH_PROMISE and is made on an entry of the stream table with method GET
\* and the request-complete flag set, and the parent's own response comes
\* after it (the promises of a parent are made before the parent is answered)
AnswerIndex(id) ==
    IF \E i \in 1..Len(answers) : answers[i].stream_id = id
    THEN CHOOSE i \in 1..Len(answers) : answers[i].stream_id = id
    ELSE 0
C40Claim ==
    /\ \A i \in 1..Len(answers) :
           answers[i].stream_id % 2 = 0 =>
               \E k \in 1..Len(promises) : promises[k].promised = answers[i].stream_id
    /\ \A k \in 1..Len(promises) :
           LET id == promises[k].promised
           IN  /\ AnswerIndex(id) # 0
               /\ AnswerIndex(promises[k].parent) > AnswerIndex(id)
               /\ id \in DOMAIN streams =>
                      streams[id].method = "GET" /\ streams[id].request_complete

\* a PUSH_PROMISE has been made
C40Pushed == promises # <<>>

\* C39: a client's stream that has been dispatched (process_request has
\* answered it) carries the :method and :path the codec delivered for it
C39Claim ==
    \A i \in 1..Len(answers) :
        LET id == answers[i].stream_id
        IN  (id \in DOMAIN h2_requests /\ id \in DOMAIN streams) =>
                /\ streams[id].method = h2_requests[id].method
                /\ streams[id].path = h2_requests[id].path

\* C38: without shutdown, the handler task of every accepted connection is
\* eventually started by a worker, also when other clients keep WebSockets
\* open without end
C38Claim == \A c \in Accepted : (conn_at[c] = "queued") ~> (conn_at[c] # "queued")

\* C37: the Connection header of a response agrees with what the handler
\* loop does after it: keep-alive iff the loop goes on to read another
\* request, close iff the connection is closed (no shutdown in between;
\* the 101 of a protocol switch aside)
C37Claim ==
    [][(/\ rpc = "r_while"
        /\ rpc' # rpc
        /\ ~shutdown_requested
        /\ responses[Len(responses)].status # 101) =>
          LET sent_response == responses[Len(responses)]
          IN  /\ sent_response.connection = "keep-alive" <=> rpc' = "r_loop"
              /\ sent_response.connection = "close" <=> rpc' = "r_closed"]_vars

\* C36: at most one thread is writing a WebSocket frame to a given client
\* socket at any time (the receive loop's pong or command reply, the
\* broadcast)
SocketWriters(c) ==
    (IF hpc[c] \in {"ws_pong", "ws_send"} THEN {HandlerThread(c)} ELSE {})
        \cup (IF bpc = "b_send" /\ c \in connections THEN {BroadcastThread} ELSE {})
C36Claim == \A c \in Conns : Cardinality(SocketWriters(c)) <= 1

\* C35: a handler task only ever reads from, writes to and closes the
\* connection it was created for, also when its descriptor number has been
\* closed by the sweeper and given to a newly accepted connection
C35Claim ==
    \A c \in Accepted :
        /\ fd_closed_by[c] \in {0, Sweeper, c}
        /\ fd_io_by[c] \subseteq {c}

\* C34: the sweeper never shuts down and closes the socket of a live
\* WebSocket connection (one that is in its receive loop, registered, and
\* closed by nobody so far)
C34Claim ==
    [][\A c \in Conns :
          (hpc[c] = "ws_loop" /\ c \in connections /\ closes[c] = 0) =>
              ~(/\ kpc = "k_close"
                /\ c \in expired_connections
                /\ c \notin expired_connections'
                /\ closes'[c] = 1)]_vars

\* C33: the sweeper never takes out of the tracker, to close it, a
\* connection on which a request is in progress (bytes arrived since the
\* last recorded activity, the handler reading or serving)
C33Claim ==
    [][\A c \in Conns :
          (c \in in_request /\ hpc[c] = "h_loop" /\ c \in connection_timestamps) =>
              c \in connection_timestamps']_vars

\* C32: url_decode replaces every %XX with two hex digits by the byte of
\* that value, wherever it stands, replaces every + by a space and leaves
\* every other character unchanged
RECURSIVE C32Decoded(_, _)
C32Decoded(str, k) ==
    IF k > Len(str) THEN <<>>
    ELSE IF /\ str[k] = "%"
            /\ k + 2 <= Len(str)
            /\ IsHexDigit(str[k + 1])
            /\ IsHexDigit(str[k + 2])
    THEN <<CharOf(16 * HexValue(str[k + 1]) + HexValue(str[k + 2]))>>
             \o C32Decoded(str, k + 3)
    ELSE <<IF str[k] = "+" THEN " " ELSE str[k]>> \o C32Decoded(str, k + 1)
C32Claim ==
    decode_result.ret # "none" =>
        /\ decode_result.ret = "returned"
        /\ decode_result.decoded = C32Decoded(decode_input, 1)

\* C31: when the client has sent all the bytes of a request whose
\* Content-Length exceeds the body bytes buffered with the headers, the
\* request handed to the handler has a body of exactly Content-Length bytes
C31Claim ==
    (body_request.at = "handed" /\ body_pending = <<>>) =>
        Len(body_request.body) = body_request.content_length

\* C26: on every cleartext HTTP/2 session the codec receives everything the
\* session was given except the 24 bytes of the connection preface at the
\* start of its first chunk, whichever copy of process_data is built
C26Claim ==
    \A s \in Sessions :
        fed_data[s] # <<>> =>
            /\ codec_input[s] = Tail(Flatten(fed_data[s]))
            /\ codec_input_static[s] = Tail(Flatten(fed_data[s]))

\* the file a GET of path asks for, and whether it is a regular file under
\* the document root
C30File(path) == IF path = "/" THEN "/index.html" ELSE path
C30Exists(path) == (document_root \o C30File(path)) \in DiskFiles

\* the paths of the promises made on a stream, in the order they were made
PromisedOn(id) ==
    LET made == SelectSeq(promises, LAMBDA x : x.parent = id)
    IN  [i \in 1..Len(made) |-> made[i].path]

\* the static table of the resources to push with a page
C23Table(path) ==
    IF path \in {"/", "/index.html"} THEN <<"/style.css", "/demo.html">>
    ELSE IF path = "/dashboard.html" THEN <<"/style.css", "/data.json">>
    ELSE IF path = "/demo.html" THEN <<"/style.css">>
    ELSE <<>>

C24Theorem == \A id \in closed_streams : id \notin DOMAIN streams

\* stream 1 was opened, got a DATA frame and a PRIORITY frame and was
\* closed while stream 3 is still in the table
C24Witness ==
    /\ closed_streams = {1}
    /\ 1 \in stream_priorities
    /\ 1 \in DOMAIN h2_requests
    /\ h2_requests[1].body = "x"
    /\ 1 \notin DOMAIN streams
    /\ 3 \in DOMAIN streams

\* C30: the response to a client's request: a GET gets 200 with the file's
\* MIME type when the file exists under the document root and 404 when it
\* does not, a POST gets 200 text/plain with the body echoed, any other
\* method gets 405
C30Claim ==
    \A i \in 1..Len(answers) :
        LET a == answers[i]
            id == a.stream_id
            r == h2_requests[id]
        IN  id \in DOMAIN h2_requests =>
                IF r.method = "GET"
                THEN IF C30Exists(r.path)
                     THEN /\ a.status_code = 200
                          /\ a.content_type = get_mime_type(C30File(r.path))
                     ELSE a.status_code = 404
                ELSE IF r.method = "POST"
                THEN /\ a.status_code = 200
                     /\ a.content_type = "text/plain"
                     /\ a.response_body = "POST request received. Body: " \o r.body
                ELSE a.status_code = 405

\* the lines of a raw request between the request line and the blank line
RECURSIVE C27UpToBlank(_)
C27UpToBlank(lines) ==
    IF lines = <<>> \/ StripCR(Head(lines)) = <<>> THEN <<>>
    ELSE <<StripCR(Head(lines))>> \o C27UpToBlank(Tail(lines))

\* the request line has a method, a target and a version, and the target's
\* path (the part before '?') is not empty and starts with '/'
C27RequestLineOk(raw) ==
    /\ raw # <<>>
    /\ LET toks == Tokens(StripCR(raw[1]))
       IN  /\ Len(toks) >= 3
           /\ toks[2][1] = "/"

\* the line has a colon and something other than spaces before the first one
C27HeaderOk(line) ==
    \E k \in 1..Len(line) :
        /\ line[k] = ":"
        /\ \A j \in 1..(k - 1) : line[j] # ":"
        /\ \E j \in 1..(k - 1) : line[j] # " "

C27HeadersOk(raw) ==
    LET hs == C27UpToBlank(Tail(raw))
    IN  \A i \in 1..Len(hs) : C27HeaderOk(hs[i])

\* C27: parse succeeds exactly when the request line is well formed and every
\* header line before the blank line has a colon after a non-empty name; a
\* successful parse leaves the method in upper case and the header keys in
\* lower case
C27Claim ==
    parsed.ret # "none" =>
        /\ parsed.ret = "true" <=> (C27RequestLineOk(raw_request) /\ C27HeadersOk(raw_request))
        /\ parsed.ret = "true" =>
               /\ \A i \in 1..Len(parsed.method) : toupper(parsed.method[i]) = parsed.method[i]
               /\ \A k \in DOMAIN parsed.headers : to_lower(k) = k

\* the names of an offered list
C28Offered == {alpn_offered[i] : i \in 1..Len(alpn_offered)}

\* C28: after a handshake, h2 is the selected protocol exactly when HTTP/2
\* is enabled and the client offered h2; otherwise http/1.1 is selected when
\* the client offered it, and the callback fails the handshake when the
\* client offered neither; h2 is never selected while HTTP/2 is disabled
C28Theorem ==
    alpn_result.ret # "none" =>
        LET h2 == http2_enabled /\ ProtoH2 \in C28Offered
            h11 == ProtoHttp11 \in C28Offered
        IN  /\ (alpn_result.ret = "SSL_TLSEXT_ERR_OK" /\ alpn_result.out = ProtoH2) <=> h2
            /\ (~h2 /\ h11) =>
                   (alpn_result.ret = "SSL_TLSEXT_ERR_OK" /\ alpn_result.out = ProtoHttp11)
            /\ (~h2 /\ ~h11) => alpn_result.ret = "SSL_TLSEXT_ERR_ALERT_FATAL"
            /\ ~http2_enabled => alpn_result.out # ProtoH2

\* HTTP/2 is disabled and the client offers h2 before http/1.1: http/1.1 is
\* selected
C28Witness ==
    /\ ~http2_enabled
    /\ alpn_offered = <<<<"h", "2", "c">>, ProtoH2, ProtoHttp11>>
    /\ alpn_result = [ret |-> "SSL_TLSEXT_ERR_OK", out |-> ProtoHttp11]

\* C29: parsing a frame create_frame built gives FIN, the opcode, no mask and
\* the payload back; the frame's length field has the smallest form that
\* fits; a masked frame of a client is parsed to its unmasked payload
C29Theorem ==
    /\ ws_input.by = "server" =>
           LET n == Len(ws_input.payload)
           IN  /\ ws_parsed.complete
               /\ ws_parsed.fin
               /\ ws_parsed.opcode = ws_input.opcode
               /\ ~ws_parsed.masked
               /\ ws_parsed.payload = ws_input.payload
               /\ n < 126 => (ws_frame[2] = n /\ Len(ws_frame) = 2 + n)
               /\ (n >= 126 /\ n <= 65535) => (ws_frame[2] = 126 /\ Len(ws_frame) = 4 + n)
               /\ n > 65535 => (ws_frame[2] = 127 /\ Len(ws_frame) = 10 + n)
    /\ ws_input.by = "client" =>
           /\ ws_parsed.complete
           /\ ws_parsed.masked
           /\ ws_parsed.mask = ws_input.key
           /\ ws_parsed.opcode = ws_input.opcode
           /\ ws_parsed.payload = ws_input.payload

\* a binary frame whose payload needs the 16-bit form by one byte
C29Witness ==
    /\ ws_input.by = "server"
    /\ ws_input.opcode = 2
    /\ Len(ws_input.payload) = 126
    /\ ws_parsed.complete
    /\ ws_parsed.payload_length = 126

\* the bytes the reads have delivered so far, in the order of the reads
RECURSIVE Delivered(_)
Delivered(reads) ==
    IF reads = <<>> THEN <<>> ELSE Head(reads).buf \o Delivered(Tail(reads))

\* C25: the cursor never passes the end of the body, the reads deliver the
\* body's bytes in order without gap or repetition, and a read sets the EOF
\* flag exactly when the cursor after it equals the body's length
C25Theorem ==
    /\ response_data_sent <= Len(response_body)
    /\ Delivered(data_reads) = SubSeq(response_body, 1, response_data_sent)
    /\ \A i \in 1..Len(data_reads) :
           data_reads[i].eof <=> data_reads[i].response_data_sent = Len(response_body)
    /\ data_source = "eof" => response_data_sent = Len(response_body)

\* a body of two different bytes followed by a third, read in pieces of
\* different lengths up to the read that set EOF
C25Witness ==
    /\ data_source = "eof"
    /\ response_body = <<"a", "b", "a">>
    /\ Len(data_reads) = 2
    /\ Len(data_reads[1].buf) = 2
    /\ Len(data_reads[2].buf) = 1

\* C1: no client socket is passed to close() a second time, whichever of the
\* handler task, the idle sweeper and the forced close of shutdown ends it
C1Claim == \A c \in Conns : closes[c] <= 1

\* C6: once request_shutdown() has been called, no loop of the server goes
\* into another turn: each one sees the coordinator's flag when it next
\* evaluates its condition, and exits
C6Claim == missed = {}

\* C11: with keep-alive on and no shutdown, a tracked connection is erased
\* from the tracker and closed by the sweeper at most one sweep period (1 s)
\* after it has been idle for connection_timeout
C11Claim ==
    \A c \in connection_timestamps \cup expired_connections :
        ticks - stamp[c] <= (connection_timeout + 1) * TicksPerSec

\* C12: once cleanup() has completed and the accept loop has ended, every
\* socket the accept loop accepted has been closed and is out of the
\* resource registry
C12Claim ==
    (xpc = "x_done" /\ apc \in {"a_exit", "a_done"}) =>
        \A c \in Conns : hpc[c] # "none" => (closes[c] >= 1 /\ c \notin sockets)

\* C13: the socket of a WebSocket connection is closed at most once, whether
\* its receive loop ends, WebSocketHandler::stop() force-closes the registry
\* or the task that did the upgrade is cleaned up
C13Claim ==
    \A c \in Conns : hpc[c] \in {"ws_loop", "ws_guard", "ws_done"} => closes[c] <= 1

\* C14: no thread performs socket I/O (send, shutdown, close) while it holds
\* the tracker mutex or the WebSocket registry mutex
C14Claim ==
    /\ kpc = "k_close" => connection_mutex # SweeperThread
    /\ (bpc = "b_send" /\ connections # {}) => connections_mutex # BroadcastThread
    /\ (xpc = "x_ws_locked" /\ connections # {}) => connections_mutex # CleanupThread
    /\ \A c \in Conns :
          (hpc[c] = "ws_send" /\ c \in connections) => connections_mutex # HandlerThread(c)

\* C15: a thread that reads or writes the keep-alive tracker holds
\* connection_mutex, and one that reads or writes the WebSocket registry
\* holds connections_mutex
C15Claim ==
    /\ kpc = "k_locked" => connection_mutex = SweeperThread
    /\ bpc = "b_send" => connections_mutex = BroadcastThread
    /\ xpc = "x_ws_locked" => connections_mutex = CleanupThread
    /\ \A c \in Conns :
          /\ hpc[c] = "h_update" => connection_mutex = HandlerThread(c)
          /\ hpc[c] = "ws_send" => connections_mutex = HandlerThread(c)
          /\ hpc[c] = "h_stats" => connection_mutex = HandlerThread(c)

\* C16: on a server with HTTP/2 enabled, a connection that opens with the
\* HTTP/2 connection preface is never answered with an HTTP/1.1 response
C16Claim ==
    (http2_enabled /\ sent # <<>> /\ sent[1] = Preface) =>
        \A i \in 1..Len(responses) : responses[i].version # "HTTP/1.1"

\* C17 as stated: after a response the handler loop goes on iff keep-alive
\* is enabled, the request is HTTP/1.1 and it has no Connection: close
C17Original ==
    [][(rpc = "r_while" /\ rpc' # rpc) =>
          (rpc' = "r_loop" <=>
              (/\ keep_alive_enabled
               /\ request.version = "HTTP/1.1"
               /\ request.connection # "close"))]_vars

\* the answers for which handle_request turns keep_alive off
C17ClearsKeepAlive(r) ==
    \/ http2_enabled /\ r.method = "GET" /\ r.upgrade = "h2c" /\ r.connection = "Upgrade"
    \/ r.method \in {"GET", "HEAD"} /\ r.target \notin {"/", "/api/users/1"}
    \/ r.method = "POST" /\ r.target # "/api/users/1"
    \/ r.method \notin {"GET", "HEAD", "POST", "OPTIONS"}

\* C17 amended: after a response the handler loop goes on iff keep-alive is
\* enabled, the request is HTTP/1.1 without Connection: close, shutdown has
\* not been requested, and the answer was not a 404 for a missing file, a
\* 405 of handle_request or handle_post_request, or a 101 for h2c
C17Amended ==
    [][(rpc = "r_while" /\ rpc' # rpc) =>
          (rpc' = "r_loop" <=>
              (/\ keep_alive_enabled
               /\ request.version = "HTTP/1.1"
               /\ request.connection # "close"
               /\ ~shutdown_requested
               /\ ~C17ClearsKeepAlive(request)))]_vars

C17Witness ==
    /\ rpc = "r_loop"
    /\ responses # <<>>
    /\ request.version = "HTTP/1.1"
    /\ keep_alive_enabled

\* C18: on a keep-alive connection whose requests are all GET / HTTP/1.1,
\* once the handler has consumed every byte and waits for more, each request
\* has got its 200 keep-alive response, however the bytes were read
C18Claim ==
    (/\ keep_alive_enabled
     /\ ~shutdown_requested
     /\ rpc = "r_read"
     /\ headers_data = <<>>
     /\ wire = <<>>
     /\ \A i \in 1..Len(sent) : sent[i] = GetRoot)
    => /\ Len(responses) = Len(sent)
       /\ \A i \in 1..Len(responses) :
             responses[i] = [version |-> "HTTP/1.1", status |-> 200,
                             connection |-> "keep-alive"]

\* C19: when the parse of the data read fails and shutdown is not requested,
\* the handler sends one 400 response and closes the connection
C19Claim ==
    [][(rpc = "r_parse" /\ ~shutdown_requested /\ parse(headers_data) # "true"
        /\ rpc' # rpc) =>
          (/\ responses' = Append(responses, [version |-> "HTTP/1.1", status |-> 400,
                                              connection |-> "close"])
           /\ rpc' = "r_closed")]_vars

\* C20: a parsed request whose method is neither GET, HEAD nor OPTIONS and
\* that is not a POST into /api is answered 405 and the loop will not go on
C20Claim ==
    [][(/\ rpc = "r_parse"
        /\ ~shutdown_requested
        /\ ~g_shutdown_requested
        /\ parse(headers_data) = "true"
        /\ Head(headers_data).req.method \notin {"GET", "HEAD", "OPTIONS"}
        /\ ~(Head(headers_data).req.method = "POST"
             /\ Head(headers_data).req.target = "/api/users/1")
        /\ rpc' # rpc) =>
          (/\ responses' = Append(responses, [version |-> "HTTP/1.1", status |-> 405,
                                              connection |-> "close"])
           /\ rpc' = "r_while"
           /\ keep_connection' = FALSE)]_vars

C22Claim ==
    \A c \in Conns :
        (c \in connections /\ running /\ ~shutdown_requested) => hpc[c] # "ws_dropped"

\* C2: once shutdown_requested is true it stays true across every step of
\* every coordinator operation.
C2Theorem == [][shutdown_requested => shutdown_requested']_vars

\* with the flag set, a wait_for_shutdown returns true, a thread has
\* registered and exited, and force_shutdown_threads has emptied the registry
C2Witness ==
    /\ shutdown_requested
    /\ \E c \in Callers : cpc[c] = "ws_ret" /\ cret[c] = "true"
    /\ \E c \in Callers : creg[c] = "exited"
    /\ registered_threads = {}

\* C3: active_threads equals the number of threads that were registered and
\* have not yet called thread_exiting, and so is never negative.
C3Claim ==
    /\ active_threads = Cardinality({w \in Workers : w \in registered_threads /\ wpc[w] # "done"})
    /\ active_threads >= 0

\* C4: once the thread_exiting() call that brought the count to zero has
\* notified, no caller of wait_for_all_threads is asleep on
\* all_threads_stopped_cv with the count at zero.
C4Claim ==
    \A c \in Callers :
        (cpc[c] = "te_end" /\ cremaining[c] = 0 /\ active_threads = 0)
            => all_threads_stopped_cv = {}

\* a wait_for_shutdown call returns in this step
WaitShutdownReturns(c) == cpc[c] # "ws_ret" /\ cpc'[c] = "ws_ret"

\* C5: when request_shutdown() has set the flag and notified, no caller of
\* wait_for_shutdown is left asleep on shutdown_cv; and wait_for_shutdown
\* returns true iff the flag is set when it returns, false only after its
\* timeout.
C5Theorem ==
    /\ []((shutdown_requested /\ \A c \in Callers : cpc[c] # "rs_notify") => shutdown_cv = {})
    /\ [][\A c \in Callers : WaitShutdownReturns(c) =>
              /\ (cret'[c] = "true") <=> shutdown_requested'
              /\ (cret'[c] = "false") => ctimed'[c]]_vars

\* a caller that went to sleep has been notified by request_shutdown and is
\* about to return
C5Witness ==
    /\ shutdown_requested
    /\ \E c \in Callers : cpc[c] = "ws_waiting" /\ c \notin shutdown_cv

\* C7: after stop() has returned the pending task queue is empty.
C7Claim == spc = "s_done" => tasks = <<>>

\* C8 as stated: a task whose enqueue was called after shutdown began (either
\* flag set) is never placed in the queue and never executed.
C8Original ==
    \A t \in TaskIds :
        (submitted[t] /\ (callStop[t] \/ callShut[t])) => (pushed[t] = 0 /\ executed[t] = 0)

\* C8 amended: with the pool's stop flag set at the call the task is never
\* placed in the queue; with either flag set at the call it is never executed.
C8Amended ==
    \A t \in TaskIds :
        /\ (submitted[t] /\ callStop[t]) => pushed[t] = 0
        /\ (submitted[t] /\ (callStop[t] \/ callShut[t])) => executed[t] = 0

\* a task submitted with only the coordinator flag set was placed in the
\* queue, and every worker has ended without running it
C8Witness ==
    \E t \in TaskIds :
        /\ submitted[t] /\ callShut[t] /\ ~callStop[t] /\ pushed[t] = 1
        /\ \A w \in Workers : wpc[w] = "done"

\* C9: stop() is never blocked on a worker that is inside a task for more than
\* its 3 second budget.
C9Claim ==
    (spc \in {"s_wait", "s_future_dtor"} /\ wpc[si] = "run") => now - start_time <= StopTimeout

\* C10: every task is popped at most once and started at most once, two
\* workers never run the same task, and a worker running a task does not
\* hold queue_mutex.
C10Theorem ==
    /\ \A t \in TaskIds : popped[t] <= 1 /\ executed[t] <= 1 /\ popped[t] <= pushed[t]
    /\ \A w \in Workers : wpc[w] = "run" => queue_mutex # WorkerThread(w)
    /\ \A w1, w2 \in Workers :
           (w1 # w2 /\ wpc[w1] = "run" /\ wpc[w2] = "run") => wtask[w1] # wtask[w2]

\* two workers run two tasks at the same time
C10Witness ==
    \E w1, w2 \in Workers : w1 # w2 /\ wpc[w1] = "run" /\ wpc[w2] = "run"

====
